---------------------------- MODULE Spec2Model ----------------------------
(***************************************************************************)
(* A model of the football_db ingestion scripts: the storage operations of *)
(* db_utils.py, the Load record tracker of logging_utils.py, the four      *)
(* category loaders and the two orchestrators.                             *)
(*                                                                         *)
(* Spec      one category loader called twice against the same database    *)
(*           (the second call either on the same source snapshot or on a   *)
(*           new one).                                                     *)
(* SpecOrch  load_all_historical_data / run_daily_update iterating the     *)
(*           (league, season) units, each loader call being one step whose *)
(*           outcome (counts returned, or an exception) is an input.       *)
(***************************************************************************)
EXTENDS Integers, Sequences, FiniteSets, TLC

(***************************************************************************)
(* Bounds of the model.                                                    *)
(***************************************************************************)
\* rows of one request to the external source (all sub-categories together)
MaxRows == 2
\* leagues handed to an orchestrator
MaxLeagues == 2
\* Load records one DataLoadLogger opens
MaxLoads == 2
\* columns of a row besides its identity columns, when one row is normalized
MaxColumns == 2
\* rows of the table a caller of bulk_insert fills
MaxStored == 2
\* processes that call get_or_create_* at the same time
MaxCallers == 2
\* calls of get_or_create_* one of these processes makes
MaxCalls == 2
\* seasons between start_season and end_season
MaxSeasons == 2

(***************************************************************************)
(* Python values.  A value is a record [t, n, s]: t the type, n the number *)
(* of an int, float or date, s the characters of a str.  A character is a  *)
(* one-character string, except "ndash" (U+2013, the en dash of FBref's    *)
(* scores) and "NUL" (U+0000).                                             *)
(***************************************************************************)
None == [t |-> "None", n |-> 0, s |-> << >>]
NaN == [t |-> "NaN", n |-> 0, s |-> << >>]
Absent == [t |-> "absent", n |-> 0, s |-> << >>]
IntV(k) == [t |-> "int", n |-> k, s |-> << >>]
FloatV(k) == [t |-> "float", n |-> k, s |-> << >>]
StrV(cs) == [t |-> "str", n |-> 0, s |-> cs]
DateV(d) == [t |-> "date", n |-> d, s |-> << >>]
\* a value that is no int, float, str or bool (a numpy scalar, a Timestamp)
ObjV(k) == [t |-> "obj", n |-> k, s |-> << >>]
\* the outcome of a conversion that raised
Raised == [t |-> "raise", n |-> 0, s |-> << >>]

Digits == <<"0", "1", "2", "3", "4", "5", "6", "7", "8", "9">>

IsDigit(c) == \E i \in 1..10 : Digits[i] = c

DigitVal(c) == (CHOOSE i \in 1..10 : Digits[i] = c) - 1

RECURSIVE DecVal(_)
DecVal(cs) ==
    IF cs = << >> THEN 0
    ELSE 10 * DecVal(SubSeq(cs, 1, Len(cs) - 1)) + DigitVal(cs[Len(cs)])

AllDigits(cs) == Len(cs) > 0 /\ \A i \in 1..Len(cs) : IsDigit(cs[i])

\* int(x) on a str: an optional sign and decimal digits, anything else raises
IntOfStr(cs) ==
    IF AllDigits(cs) THEN IntV(DecVal(cs))
    ELSE IF Len(cs) > 1 /\ cs[1] \in {"-", "+"} /\ AllDigits(Tail(cs))
         THEN IntV(IF cs[1] = "-" THEN 0 - DecVal(Tail(cs)) ELSE DecVal(Tail(cs)))
         ELSE Raised

\* int(x)
PyInt(v) ==
    CASE v.t = "int" -> v
      [] v.t = "float" -> IntV(v.n)
      [] v.t = "str" -> IntOfStr(v.s)
      [] OTHER -> Raised

\* float(x)
PyFloat(v) ==
    CASE v.t = "int" -> FloatV(v.n)
      [] v.t = "float" -> v
      [] v.t = "str" -> (IF IntOfStr(v.s) = Raised THEN Raised
                         ELSE FloatV(IntOfStr(v.s).n))
      [] OTHER -> Raised

RECURSIVE DecStr(_)
DecStr(k) == IF k < 10 THEN <<Digits[k + 1]>>
             ELSE DecStr(k \div 10) \o <<Digits[(k % 10) + 1]>>

\* str(x), as a sequence of characters
PyStr(v) ==
    CASE v.t = "str" -> v.s
      [] v.t = "NaN" -> <<"n", "a", "n">>
      [] v.t = "None" -> <<"N", "o", "n", "e">>
      [] v.t \in {"int", "float"} ->
            (IF v.n < 0 THEN <<"-">> \o DecStr(0 - v.n) ELSE DecStr(v.n))
            \o (IF v.t = "float" THEN <<".", "0">> ELSE << >>)
      [] OTHER -> <<"<", v.t, ">">>

\* pd.isna(x) / pd.notna(x)
IsNa(v) == v.t \in {"None", "NaN"}
NotNa(v) == ~IsNa(v)

\* bool(x): NaN is a non-zero float, hence true
Truthy(v) ==
    CASE v.t = "None" -> FALSE
      [] v.t = "str" -> Len(v.s) > 0
      [] v.t \in {"int", "float"} -> v.n # 0
      [] OTHER -> TRUE

\* sep in s, for a one-character sep
Contains(cs, c) == \E i \in 1..Len(cs) : cs[i] = c

\* s.split(sep), for a one-character sep
RECURSIVE Split(_, _)
Split(cs, c) ==
    IF ~Contains(cs, c) THEN <<cs>>
    ELSE LET i == CHOOSE j \in 1..Len(cs) :
                      cs[j] = c /\ \A k \in 1..(j - 1) : cs[k] # c
         IN <<SubSeq(cs, 1, i - 1)>> \o Split(SubSeq(cs, i + 1, Len(cs)), c)

\* s[:k]
Truncate(cs, k) == SubSeq(cs, 1, IF Len(cs) < k THEN Len(cs) ELSE k)

\* pd.to_datetime(x): a date or Timestamp is taken as it is; the strings of
\* this model are no dates, and parsing them raises
ToDatetime(v) == IF v.t = "date" THEN v ELSE Raised

\* row.get(a, row.get(b)): column a when the row has it (NaN included),
\* otherwise column b, otherwise None
Has(row, c) == c \in DOMAIN row /\ row[c] # Absent
RowGet(row, a, b) ==
    IF Has(row, a) THEN row[a] ELSE IF Has(row, b) THEN row[b] ELSE None


(***************************************************************************)
(* db_utils.py: the storage operations.  A table is the sequence of its    *)
(* rows in insertion order; a row's surrogate id is its position.          *)
(***************************************************************************)
\* psycopg2 refuses a statement with a NUL character in a string parameter
HasNul(cs) == Contains(cs, "NUL")

DbRejects(v) == v.t = "str" /\ HasNul(v.s)

\* the reference data: get_league_season_id's join of league_seasons,
\* leagues and seasons; 0 stands for "no row" (None)
LeagueSeasonRows ==
    { [league_code |-> "ENG", season_name |-> <<2020, 2021>>, league_season_id |-> 1],
      [league_code |-> "ENG", season_name |-> <<2021, 2022>>, league_season_id |-> 2],
      [league_code |-> "ESP", season_name |-> <<2020, 2021>>, league_season_id |-> 3] }

get_league_season_id(league_code, season_name) ==
    IF \E r \in LeagueSeasonRows :
            r.league_code = league_code /\ r.season_name = season_name
    THEN (CHOOSE r \in LeagueSeasonRows :
            r.league_code = league_code /\ r.season_name = season_name
         ).league_season_id
    ELSE 0

\* get_or_create_team as it would be without the SELECT by name
get_or_create_team_without_lookup(tms, team_name) ==
    IF HasNul(team_name)
    THEN [teams |-> tms, id |-> 0, raised |-> TRUE]
    ELSE [teams |-> Append(tms, [team_name |-> team_name, country |-> None]),
          id |-> Len(tms) + 1,
          raised |-> FALSE]

\* get_or_create_team(team_name): [teams, id, raised]
get_or_create_team(tms, team_name) ==
    IF HasNul(team_name)
    THEN [teams |-> tms, id |-> 0, raised |-> TRUE]
    ELSE IF \E i \in 1..Len(tms) : tms[i].team_name = team_name
    THEN [teams |-> tms,
          id |-> CHOOSE i \in 1..Len(tms) :
                    /\ tms[i].team_name = team_name
                    /\ \A j \in 1..(i - 1) : tms[j].team_name # team_name,
          raised |-> FALSE]
    ELSE [teams |-> Append(tms, [team_name |-> team_name, country |-> None]),
          id |-> Len(tms) + 1,
          raised |-> FALSE]

\* get_or_create_player that inserts without looking the name up
get_or_create_player_without_lookup(pls, player_name, nationality, position) ==
    IF HasNul(player_name) \/ DbRejects(nationality) \/ DbRejects(position)
    THEN [players |-> pls, id |-> 0, raised |-> TRUE]
    ELSE [players |-> Append(pls, [player_name |-> player_name,
                                   nationality |-> nationality,
                                   position |-> position]),
          id |-> Len(pls) + 1,
          raised |-> FALSE]

\* get_or_create_player(player_name, **kwargs): [players, id, raised]
get_or_create_player(pls, player_name, nationality, position) ==
    IF HasNul(player_name)
    THEN [players |-> pls, id |-> 0, raised |-> TRUE]
    ELSE IF \E i \in 1..Len(pls) : pls[i].player_name = player_name
    THEN [players |-> pls,
          id |-> CHOOSE i \in 1..Len(pls) :
                    /\ pls[i].player_name = player_name
                    /\ \A j \in 1..(i - 1) : pls[j].player_name # player_name,
          raised |-> FALSE]
    ELSE IF DbRejects(nationality) \/ DbRejects(position)
    THEN [players |-> pls, id |-> 0, raised |-> TRUE]
    ELSE [players |-> Append(pls, [player_name |-> player_name,
                                   nationality |-> nationality,
                                   position |-> position]),
          id |-> Len(pls) + 1,
          raised |-> FALSE]

\* ConflictRow as it would be without the unique constraint on the natural
\* key: no row ever conflicts
ConflictRowNever(tbl, rec, conflict_columns) == 0

\* the row of tbl that conflicts with rec on conflict_columns, or 0
ConflictRow(tbl, rec, conflict_columns) ==
    IF \E i \in 1..Len(tbl) : \A c \in conflict_columns : tbl[i][c] = rec[c]
    THEN CHOOSE i \in 1..Len(tbl) :
            /\ \A c \in conflict_columns : tbl[i][c] = rec[c]
            /\ \A j \in 1..(i - 1) : \E c \in conflict_columns : tbl[j][c] # rec[c]
    ELSE 0

\* INSERT ... ON CONFLICT (conflict_columns) DO UPDATE SET c = EXCLUDED.c
\* for one row
UpsertRow(tbl, rec, conflict_columns, update_columns) ==
    LET i == ConflictRow(tbl, rec, conflict_columns)
    IN IF i = 0 THEN Append(tbl, rec)
       ELSE [tbl EXCEPT ![i] =
                [c \in DOMAIN rec |->
                    IF c \in update_columns THEN rec[c] ELSE tbl[i][c]]]

RECURSIVE UpsertRows(_, _, _, _)
UpsertRows(tbl, data, conflict_columns, update_columns) ==
    IF data = << >> THEN tbl
    ELSE UpsertRows(UpsertRow(tbl, Head(data), conflict_columns, update_columns),
                    Tail(data), conflict_columns, update_columns)

\* the string columns of a row that the driver refuses
RowRejected(rec, text_columns) == \E c \in text_columns : DbRejects(rec[c])

\* upsert(table, columns, data, conflict_columns, update_columns):
\* [table, rowcount, raised]; cur.rowcount is 1 for each row of the batch,
\* inserted or updated alike
upsert(tbl, data, conflict_columns, update_columns, text_columns) ==
    IF data = << >> THEN [table |-> tbl, rowcount |-> 0, raised |-> FALSE]
    ELSE IF \E k \in 1..Len(data) : RowRejected(data[k], text_columns)
    THEN [table |-> tbl, rowcount |-> 0, raised |-> TRUE]
    ELSE [table |-> UpsertRows(tbl, data, conflict_columns, update_columns),
          rowcount |-> Len(data),
          raised |-> FALSE]

\* bulk_insert(table, columns, data): [table, rowcount, raised]
bulk_insert(tbl, data) ==
    IF data = << >> THEN [table |-> tbl, rowcount |-> 0, raised |-> FALSE]
    ELSE [table |-> tbl \o data, rowcount |-> Len(data), raised |-> FALSE]

\* the empty-batch test as it would be without the early return
EmptyBatchNever(data) == FALSE

\* `if not data: return 0` of bulk_insert and upsert, before get_cursor
EmptyBatch(data) == data = << >>

\* DefaultUpdateColumns as it would be if the list left a column out
DefaultUpdateColumnsNoShots(columns, conflict_columns) ==
    columns \ (conflict_columns \cup {"shots"})

\* update_columns = None: every column that is no conflict column
DefaultUpdateColumns(columns, conflict_columns) == columns \ conflict_columns

(***************************************************************************)
(* load_matches.py: MatchDataLoader._process_matches, one row.             *)
(***************************************************************************)
MatchColumns ==
    {"league_season_id", "home_team_id", "away_team_id", "match_date",
     "matchweek", "home_score", "away_score", "home_halftime_score",
     "away_halftime_score", "attendance", "venue", "referee", "match_status",
     "external_match_id"}

MatchConflictColumns ==
    {"league_season_id", "home_team_id", "away_team_id", "match_date"}

\* MatchUpdateColumns as it would be without match_status
MatchUpdateColumnsNoStatus ==
    {"matchweek", "home_score", "away_score", "attendance", "venue", "referee"}

MatchUpdateColumns ==
    {"matchweek", "home_score", "away_score", "attendance", "venue",
     "referee", "match_status"}

\* ParseScores as it would be if it converted each score that is there
ParseScoresEach(home_score, away_score) ==
    IF NotNa(home_score) /\ home_score.t = "str" /\ Contains(home_score.s, "ndash")
    THEN LET scores == Split(home_score.s, "ndash")
             h == IF Len(scores) > 0 THEN IntOfStr(scores[1]) ELSE None
             a == IF Len(scores) > 1 THEN IntOfStr(scores[2]) ELSE None
         IN [home |-> h, away |-> a, raised |-> h = Raised \/ a = Raised]
    ELSE LET h == IF NotNa(home_score) THEN PyInt(home_score) ELSE None
             a == IF NotNa(away_score) THEN PyInt(away_score) ELSE None
         IN [home |-> h, away |-> a, raised |-> h = Raised \/ a = Raised]

\* the scores of a row: [home, away, raised]
ParseScores(home_score, away_score) ==
    IF NotNa(home_score) /\ home_score.t = "str" /\ Contains(home_score.s, "ndash")
    THEN LET scores == Split(home_score.s, "ndash")
             h == IF Len(scores) > 0 THEN IntOfStr(scores[1]) ELSE None
             a == IF Len(scores) > 1 THEN IntOfStr(scores[2]) ELSE None
         IN [home |-> h, away |-> a, raised |-> h = Raised \/ a = Raised]
    ELSE IF NotNa(home_score) /\ NotNa(away_score)
    THEN LET h == PyInt(home_score)
             a == PyInt(away_score)
         IN [home |-> h, away |-> a, raised |-> h = Raised \/ a = Raised]
    ELSE [home |-> None, away |-> None, raised |-> FALSE]

MatchStatus(home_score_val) ==
    IF home_score_val # None THEN "completed" ELSE "scheduled"

\* int(x) of an optional column, None when the value is missing
OptionalInt(v) == IF NotNa(v) THEN PyInt(v) ELSE None

\* str(x)[:100] of an optional column
OptionalText(v) == IF NotNa(v) THEN StrV(Truncate(PyStr(v), 100)) ELSE None

\* int(str(x).replace(',', '')), None when it cannot be converted
Attendance(v) ==
    IF NotNa(v)
    THEN LET cs == PyStr(v)
             plain == SelectSeq(cs, LAMBDA c : c # ",")
             k == IntOfStr(plain)
         IN IF k = Raised THEN None ELSE k
    ELSE None

\* MatchCounter as it would be if every upserted row counted as inserted
MatchCounterInserted(rows_affected, match_status) ==
    IF rows_affected > 0 THEN "inserted" ELSE "none"

\* which counter a successful upsert of a match increments
MatchCounter(rows_affected, match_status) ==
    IF rows_affected > 0
    THEN (IF match_status = "completed" THEN "updated" ELSE "inserted")
    ELSE "none"

RowFailed(tms, tbl) ==
    [teams |-> tms, table |-> tbl, counter |-> "failed", raised |-> FALSE]

\* RowRaised as it would be if the except clause did not count the row
RowRaisedUncounted(tms, tbl) ==
    [teams |-> tms, table |-> tbl, counter |-> "none", raised |-> TRUE]

RowRaised(tms, tbl) ==
    [teams |-> tms, table |-> tbl, counter |-> "failed", raised |-> TRUE]

\* ProcessMatchRow as it would be if the date were tested after the upsert
ProcessMatchRowDateLast(row, league_season_id, tms, tbl) ==
    LET home_team == RowGet(row, "home_team", "Home")
        away_team == RowGet(row, "away_team", "Away")
        match_date == RowGet(row, "date", "Date")
        home_score == RowGet(row, "home_score", "Score")
        away_score == RowGet(row, "away_score", "Score")
    IN IF ~Truthy(home_team) \/ ~Truthy(away_team) THEN RowFailed(tms, tbl)
       ELSE
       LET h == get_or_create_team(tms, PyStr(home_team))
       IN IF h.raised THEN RowRaised(tms, tbl)
          ELSE
          LET a == get_or_create_team(h.teams, PyStr(away_team))
          IN IF a.raised THEN RowRaised(h.teams, tbl)
             ELSE
             LET match_datetime == ToDatetime(match_date)
                 sc == ParseScores(home_score, away_score)
                 match_status == MatchStatus(sc.home)
                 matchweek == OptionalInt(RowGet(row, "matchweek", "Week"))
                 venue == OptionalText(RowGet(row, "venue", "Venue"))
                 referee == OptionalText(RowGet(row, "referee", "Referee"))
                 attendance == Attendance(RowGet(row, "attendance", "Attendance"))
                 match_data ==
                     [league_season_id |-> league_season_id,
                      home_team_id |-> h.id,
                      away_team_id |-> a.id,
                      match_date |-> match_datetime,
                      matchweek |-> matchweek,
                      home_score |-> sc.home,
                      away_score |-> sc.away,
                      home_halftime_score |-> None,
                      away_halftime_score |-> None,
                      attendance |-> attendance,
                      venue |-> venue,
                      referee |-> referee,
                      match_status |-> match_status,
                      external_match_id |->
                          <<league_season_id, home_team, away_team, match_datetime>>]
                 u == upsert(tbl, <<match_data>>, MatchConflictColumns,
                             MatchUpdateColumns, {"venue", "referee"})
             IN IF IsNa(match_date)
                THEN [teams |-> a.teams, table |-> u.table,
                      counter |-> "failed", raised |-> FALSE]
                ELSE IF match_datetime = Raised \/ sc.raised \/ matchweek = Raised
                   \/ u.raised
                THEN RowRaised(a.teams, tbl)
                ELSE [teams |-> a.teams,
                      table |-> u.table,
                      counter |-> MatchCounter(u.rowcount, match_status),
                      raised |-> FALSE]

\* one pass of the row loop: [teams, table, counter, raised]; counter is the
\* counter the row increments, raised whether the except clause was taken
ProcessMatchRow(row, league_season_id, tms, tbl) ==
    LET home_team == RowGet(row, "home_team", "Home")
        away_team == RowGet(row, "away_team", "Away")
        match_date == RowGet(row, "date", "Date")
        home_score == RowGet(row, "home_score", "Score")
        away_score == RowGet(row, "away_score", "Score")
    IN IF ~Truthy(home_team) \/ ~Truthy(away_team) THEN RowFailed(tms, tbl)
       ELSE
       LET h == get_or_create_team(tms, PyStr(home_team))
       IN IF h.raised THEN RowRaised(tms, tbl)
          ELSE
          LET a == get_or_create_team(h.teams, PyStr(away_team))
          IN IF a.raised THEN RowRaised(h.teams, tbl)
             ELSE IF IsNa(match_date) THEN RowFailed(a.teams, tbl)
             ELSE
             LET match_datetime == ToDatetime(match_date)
                 sc == ParseScores(home_score, away_score)
                 match_status == MatchStatus(sc.home)
                 matchweek == OptionalInt(RowGet(row, "matchweek", "Week"))
                 venue == OptionalText(RowGet(row, "venue", "Venue"))
                 referee == OptionalText(RowGet(row, "referee", "Referee"))
                 attendance == Attendance(RowGet(row, "attendance", "Attendance"))
                 match_data ==
                     [league_season_id |-> league_season_id,
                      home_team_id |-> h.id,
                      away_team_id |-> a.id,
                      match_date |-> match_datetime,
                      matchweek |-> matchweek,
                      home_score |-> sc.home,
                      away_score |-> sc.away,
                      home_halftime_score |-> None,
                      away_halftime_score |-> None,
                      attendance |-> attendance,
                      venue |-> venue,
                      referee |-> referee,
                      match_status |-> match_status,
                      external_match_id |->
                          <<league_season_id, home_team, away_team, match_datetime>>]
                 u == upsert(tbl, <<match_data>>, MatchConflictColumns,
                             MatchUpdateColumns, {"venue", "referee"})
             IN IF match_datetime = Raised \/ sc.raised \/ matchweek = Raised
                   \/ u.raised
                THEN RowRaised(a.teams, tbl)
                ELSE [teams |-> a.teams,
                      table |-> u.table,
                      counter |-> MatchCounter(u.rowcount, match_status),
                      raised |-> FALSE]

(***************************************************************************)
(* logging_utils.py: DataLoadLogger.  load_id 0 stands for None.  An error *)
(* message is the pair of log_error's context and the exception's text.    *)
(***************************************************************************)
NoMessage == [context |-> << >>, error |-> ""]

\* start_load: [log, load_id]
start_load(log, load_type, target_table, league_season_id) ==
    [log |-> Append(log, [load_type |-> load_type,
                          target_table |-> target_table,
                          league_season_id |-> league_season_id,
                          status |-> "running",
                          load_end |-> FALSE,
                          completions |-> 0,
                          records_processed |-> 0,
                          records_inserted |-> 0,
                          records_updated |-> 0,
                          records_failed |-> 0,
                          error_message |-> NoMessage]),
     load_id |-> Len(log) + 1]

\* update_progress as it would be if it added to the counters
update_progress_adding(log, lid, records_processed, records_inserted, records_updated, records_failed) ==
    IF lid = 0 THEN log
    ELSE [log EXCEPT ![lid].records_processed = @ + records_processed,
                     ![lid].records_inserted = @ + records_inserted,
                     ![lid].records_updated = @ + records_updated,
                     ![lid].records_failed = @ + records_failed]

\* update_progress: the log
update_progress(log, lid, records_processed, records_inserted, records_updated, records_failed) ==
    IF lid = 0 THEN log
    ELSE [log EXCEPT ![lid].records_processed = records_processed,
                     ![lid].records_inserted = records_inserted,
                     ![lid].records_updated = records_updated,
                     ![lid].records_failed = records_failed]

\* complete_load as it would be if the UPDATE left error_message out
complete_load_without_message(log, lid, status, error_message) ==
    IF lid = 0 THEN [log |-> log, load_id |-> lid]
    ELSE [log |-> [log EXCEPT ![lid].load_end = TRUE,
                              ![lid].completions = @ + 1,
                              ![lid].status = status],
          load_id |-> 0]

\* complete_load as it would be if it kept self.load_id
complete_load_keeps_load_id(log, lid, status, error_message) ==
    IF lid = 0 THEN [log |-> log, load_id |-> lid]
    ELSE [log |-> [log EXCEPT ![lid].load_end = TRUE,
                              ![lid].completions = @ + 1,
                              ![lid].status = status,
                              ![lid].error_message = error_message],
          load_id |-> lid]

\* complete_load: [log, load_id]
complete_load(log, lid, status, error_message) ==
    IF lid = 0 THEN [log |-> log, load_id |-> lid]
    ELSE [log |-> [log EXCEPT ![lid].load_end = TRUE,
                              ![lid].completions = @ + 1,
                              ![lid].status = status,
                              ![lid].error_message = error_message],
          load_id |-> 0]

\* log_error as it would be if it only wrote to the log file
log_error_to_file_only(log, lid, error, context) ==
    [log |-> log, load_id |-> lid]

\* log_error: [log, load_id]
log_error(log, lid, error, context) ==
    IF lid # 0
    THEN complete_load(log, lid, "failed", [context |-> context, error |-> error])
    ELSE [log |-> log, load_id |-> lid]

(***************************************************************************)
(* load_standings.py: StandingsLoader._process_standings, one row.         *)
(***************************************************************************)
\* the first of 'team', 'Team', 'Squad' among the DataFrame's columns, ""
\* when there is none
TeamColumn(df) ==
    LET names == <<"team", "Team", "Squad">>
        cols == IF df = << >> THEN {} ELSE DOMAIN df[1]
    IN IF \E i \in 1..3 : names[i] \in cols
       THEN names[CHOOSE i \in 1..3 :
                    names[i] \in cols /\ \A j \in 1..(i - 1) : names[j] \notin cols]
       ELSE ""

\* the alias search taking the last alias with a non-missing value
LastAlias(row, col_names) ==
    IF \E i \in 1..Len(col_names) : Has(row, col_names[i]) /\ NotNa(row[col_names[i]])
    THEN CHOOSE i \in 1..Len(col_names) :
            /\ Has(row, col_names[i]) /\ NotNa(row[col_names[i]])
            /\ \A j \in (i + 1)..Len(col_names) :
                  ~(Has(row, col_names[j]) /\ NotNa(row[col_names[j]]))
    ELSE 0

\* the first alias of col_names the row holds with a non-missing value, 0
\* when there is none
FirstAlias(row, col_names) ==
    IF \E i \in 1..Len(col_names) : Has(row, col_names[i]) /\ NotNa(row[col_names[i]])
    THEN CHOOSE i \in 1..Len(col_names) :
            /\ Has(row, col_names[i]) /\ NotNa(row[col_names[i]])
            /\ \A j \in 1..(i - 1) :
                  ~(Has(row, col_names[j]) /\ NotNa(row[col_names[j]]))
    ELSE 0

\* StandingsGetVal as it would be if a value that cannot be converted were
\* stored as it is
StandingsGetValRaw(row, col_names, default) ==
    LET i == FirstAlias(row, col_names)
    IN IF i = 0 THEN default
       ELSE LET n == PyInt(row[col_names[i]])
            IN IF n = Raised THEN row[col_names[i]] ELSE n

\* _process_standings.get_val(col_names, default)
StandingsGetVal(row, col_names, default) ==
    LET i == FirstAlias(row, col_names)
    IN IF i = 0 THEN default
       ELSE LET k == PyInt(row[col_names[i]])
            IN IF k = Raised THEN default ELSE k

StandingColumns ==
    {"league_season_id", "team_id", "position", "matches_played", "wins",
     "draws", "losses", "goals_for", "goals_against", "goal_difference",
     "points", "home_wins", "home_draws", "home_losses", "away_wins",
     "away_draws", "away_losses", "standing_date"}

StandingConflictColumns == {"league_season_id", "team_id", "standing_date"}

\* which counter a successful upsert of a stat or standing row increments
UpsertCounter(rows_affected) == IF rows_affected > 0 THEN "updated" ELSE "inserted"

\* StandingPosition as it would be without the look at column Rk
StandingPositionByOrder(row, idx) == IntV(idx + 1)

\* position: the row's index + 1, or int(row['Rk']) when the row has a
\* value in column Rk
StandingPosition(row, idx) ==
    IF Has(row, "Rk") /\ NotNa(row["Rk"]) THEN PyInt(row["Rk"]) ELSE IntV(idx + 1)

\* one pass of the row loop; idx is the row's 0-based index
ProcessStandingRow(row, idx, team_col, league_season_id, standing_date, tms, tbl) ==
    LET team_name == row[team_col]
    IN IF IsNa(team_name) THEN RowFailed(tms, tbl)
       ELSE
       LET g == get_or_create_team(tms, PyStr(team_name))
       IN IF g.raised THEN RowRaised(tms, tbl)
          ELSE
          LET position == StandingPosition(row, idx)
              goals_for == StandingsGetVal(row, <<"GF", "Goals For", "F">>, IntV(0))
              goals_against ==
                  StandingsGetVal(row, <<"GA", "Goals Against", "A">>, IntV(0))
              upsert_data ==
                  [league_season_id |-> league_season_id,
                   team_id |-> g.id,
                   position |-> position,
                   matches_played |->
                       StandingsGetVal(row, <<"MP", "Matches", "Pld">>, IntV(0)),
                   wins |-> StandingsGetVal(row, <<"W", "Wins">>, IntV(0)),
                   draws |-> StandingsGetVal(row, <<"D", "Draws">>, IntV(0)),
                   losses |-> StandingsGetVal(row, <<"L", "Losses">>, IntV(0)),
                   goals_for |-> goals_for,
                   goals_against |-> goals_against,
                   goal_difference |->
                       StandingsGetVal(row, <<"GD", "Goal Difference">>,
                                       IntV(goals_for.n - goals_against.n)),
                   points |-> StandingsGetVal(row, <<"Pts", "Points">>, IntV(0)),
                   home_wins |-> StandingsGetVal(row, <<"Home W">>, None),
                   home_draws |-> StandingsGetVal(row, <<"Home D">>, None),
                   home_losses |-> StandingsGetVal(row, <<"Home L">>, None),
                   away_wins |-> StandingsGetVal(row, <<"Away W">>, None),
                   away_draws |-> StandingsGetVal(row, <<"Away D">>, None),
                   away_losses |-> StandingsGetVal(row, <<"Away L">>, None),
                   standing_date |-> standing_date]
              u == upsert(tbl, <<upsert_data>>, StandingConflictColumns,
                          DefaultUpdateColumns(StandingColumns, StandingConflictColumns),
                          {})
          IN IF position = Raised \/ u.raised THEN RowRaised(g.teams, tbl)
             ELSE [teams |-> g.teams,
                   table |-> u.table,
                   counter |-> UpsertCounter(u.rowcount),
                   raised |-> FALSE]

(***************************************************************************)
(* load_team_stats.py: TeamStatsLoader._extract_stats and one row of       *)
(* _process_team_stats.  The canonical fields of a stat type are a table:  *)
(* at "stats" for an entry of the stats dict, at "additional" for an entry *)
(* of stats['additional_stats'].                                           *)
(***************************************************************************)
TeamStatTypes ==
    <<"standard", "shooting", "passing", "passing_types", "defense",
      "possession", "misc">>

TeamStatFields(stat_type) ==
    CASE stat_type = "standard" ->
        <<[at |-> "stats", key |-> "matches_played", aliases |-> <<"# Pl", "MP", "Matches">>, conv |-> "int"],
          [at |-> "stats", key |-> "wins", aliases |-> <<"W", "Wins">>, conv |-> "int"],
          [at |-> "stats", key |-> "draws", aliases |-> <<"D", "Draws">>, conv |-> "int"],
          [at |-> "stats", key |-> "losses", aliases |-> <<"L", "Losses">>, conv |-> "int"],
          [at |-> "stats", key |-> "goals_for", aliases |-> <<"GF", "Goals For">>, conv |-> "int"],
          [at |-> "stats", key |-> "goals_against", aliases |-> <<"GA", "Goals Against">>, conv |-> "int"],
          [at |-> "stats", key |-> "yellow_cards", aliases |-> <<"CrdY", "Yellow Cards">>, conv |-> "int"],
          [at |-> "stats", key |-> "red_cards", aliases |-> <<"CrdR", "Red Cards">>, conv |-> "int"]>>
      [] stat_type = "shooting" ->
        <<[at |-> "stats", key |-> "shots", aliases |-> <<"Sh", "Shots">>, conv |-> "int"],
          [at |-> "stats", key |-> "shots_on_target", aliases |-> <<"SoT", "Shots on Target">>, conv |-> "int"],
          [at |-> "stats", key |-> "shots_on_target_pct", aliases |-> <<"SoT%">>, conv |-> "float"],
          [at |-> "additional", key |-> "goals_per_shot", aliases |-> <<"G/Sh">>, conv |-> "float"],
          [at |-> "additional", key |-> "goals_per_shot_on_target", aliases |-> <<"G/SoT">>, conv |-> "float"]>>
      [] stat_type = "passing" ->
        <<[at |-> "stats", key |-> "passes_completed", aliases |-> <<"Cmp", "Passes Completed">>, conv |-> "int"],
          [at |-> "stats", key |-> "passes_attempted", aliases |-> <<"Att", "Passes Attempted">>, conv |-> "int"],
          [at |-> "stats", key |-> "pass_completion_pct", aliases |-> <<"Cmp%", "Pass Completion %">>, conv |-> "float"],
          [at |-> "additional", key |-> "progressive_passes", aliases |-> <<"PrgP">>, conv |-> "int"],
          [at |-> "additional", key |-> "key_passes", aliases |-> <<"KP">>, conv |-> "int"]>>
      [] stat_type = "defense" ->
        <<[at |-> "stats", key |-> "tackles", aliases |-> <<"Tkl", "Tackles">>, conv |-> "int"],
          [at |-> "stats", key |-> "tackles_won", aliases |-> <<"TklW">>, conv |-> "int"],
          [at |-> "stats", key |-> "interceptions", aliases |-> <<"Int", "Interceptions">>, conv |-> "int"],
          [at |-> "stats", key |-> "blocks", aliases |-> <<"Blocks">>, conv |-> "int"],
          [at |-> "stats", key |-> "clearances", aliases |-> <<"Clr", "Clearances">>, conv |-> "int"]>>
      [] stat_type = "possession" ->
        <<[at |-> "stats", key |-> "possession_pct", aliases |-> <<"Poss", "Possession">>, conv |-> "float"],
          [at |-> "additional", key |-> "touches", aliases |-> <<"Touches">>, conv |-> "int"],
          [at |-> "additional", key |-> "progressive_carries", aliases |-> <<"PrgC">>, conv |-> "int"]>>
      [] stat_type = "misc" ->
        <<[at |-> "stats", key |-> "fouls_committed", aliases |-> <<"Fls", "Fouls">>, conv |-> "int"],
          [at |-> "stats", key |-> "fouls_drawn", aliases |-> <<"Fld", "Fouls Drawn">>, conv |-> "int"],
          [at |-> "additional", key |-> "offsides", aliases |-> <<"Off", "Offsides">>, conv |-> "int"],
          [at |-> "additional", key |-> "penalty_kicks", aliases |-> <<"PKwon">>, conv |-> "int"]>>
      [] OTHER -> << >>

\* get_val(col_names, convert_func) of _extract_stats and
\* _extract_player_stats: the first alias with a non-missing value,
\* converted; None when there is none or the conversion raises
GetVal(row, col_names, conv) ==
    LET i == FirstAlias(row, col_names)
    IN IF i = 0 THEN None
       ELSE LET val == row[col_names[i]]
                k == IF conv = "int" THEN PyInt(val) ELSE PyFloat(val)
            IN IF k = Raised THEN None ELSE k

\* the keys a field table sets at "stats" / at "additional"
KeysAt(fields, at) == {fields[i].key : i \in {j \in 1..Len(fields) : fields[j].at = at}}

\* the value a field table gives key at `at`: its last assignment
FieldVal(row, fields, at, key) ==
    LET i == CHOOSE j \in 1..Len(fields) :
                /\ fields[j].at = at /\ fields[j].key = key
                /\ \A m \in (j + 1)..Len(fields) :
                      ~(fields[m].at = at /\ fields[m].key = key)
    IN GetVal(row, fields[i].aliases, fields[i].conv)

TeamIdentityColumns == {"team", "Team", "Squad"}

\* _extract_stats with the 'standard' block run for every stat type
ExtractStatsEveryType(row, stat_type) ==
    LET fields == TeamStatFields("standard") \o TeamStatFields(stat_type)
        keys == KeysAt(fields, "stats")
        preset == KeysAt(fields, "additional")
        others == {col \in DOMAIN row :
                      /\ col \notin TeamIdentityColumns
                      /\ col \notin keys \cup {"additional_stats"}
                      /\ NotNa(row[col])}
    IN [stats |-> [key \in keys |-> FieldVal(row, fields, "stats", key)],
        additional_stats |->
            [key \in preset \cup others |->
                IF key \in others THEN row[key]
                ELSE FieldVal(row, fields, "additional", key)]]

\* _extract_stats: [stats, additional_stats]; stats maps the keys of the
\* stats dict other than 'additional_stats'
ExtractStats(row, stat_type) ==
    LET fields == TeamStatFields(stat_type)
        keys == KeysAt(fields, "stats")
        preset == KeysAt(fields, "additional")
        others == {col \in DOMAIN row :
                      /\ col \notin TeamIdentityColumns
                      /\ col \notin keys \cup {"additional_stats"}
                      /\ NotNa(row[col])}
    IN [stats |-> [key \in keys |-> FieldVal(row, fields, "stats", key)],
        additional_stats |->
            [key \in preset \cup others |->
                IF key \in others THEN row[key]
                ELSE FieldVal(row, fields, "additional", key)]]

\* stats_data.get(key)
StatsGet(stats, key) == IF key \in DOMAIN stats THEN stats[key] ELSE None

\* json.dumps(d) raises TypeError on a value that is no JSON type (not
\* None, bool, int, float or str)
JsonRaises(d) == \E key \in DOMAIN d : d[key].t \in {"obj", "date"}

\* json.dumps(d): the JSON object, key by key, None written as null
JsonDumps(d) ==
    [key \in DOMAIN d |->
        IF d[key] = None THEN [t |-> "null", n |-> 0, s |-> << >>] ELSE d[key]]

TeamStatColumns ==
    {"team_id", "league_season_id", "stat_type", "matches_played", "wins",
     "draws", "losses", "goals_for", "goals_against", "possession_pct",
     "passes_completed", "passes_attempted", "pass_completion_pct",
     "shots", "shots_on_target", "shots_on_target_pct", "tackles",
     "tackles_won", "interceptions", "blocks", "clearances",
     "yellow_cards", "red_cards", "fouls_committed", "fouls_drawn",
     "additional_stats"}

TeamStatConflictColumns == {"team_id", "league_season_id", "stat_type"}

\* the tuple of upsert_data
TeamStatRecord(row, team_id, league_season_id, stat_type) ==
    LET stats_data == ExtractStats(row, stat_type)
    IN [c \in TeamStatColumns |->
           CASE c = "team_id" -> team_id
             [] c = "league_season_id" -> league_season_id
             [] c = "stat_type" -> stat_type
             [] c = "additional_stats" -> JsonDumps(stats_data.additional_stats)
             [] OTHER -> StatsGet(stats_data.stats, c)]

\* one pass of the row loop
ProcessTeamStatRow(row, team_col, league_season_id, stat_type, tms, tbl) ==
    LET team_name == row[team_col]
    IN IF IsNa(team_name) THEN RowFailed(tms, tbl)
       ELSE
       LET g == get_or_create_team(tms, PyStr(team_name))
       IN IF g.raised THEN RowRaised(tms, tbl)
          ELSE
          LET stats_data == ExtractStats(row, stat_type)
              bad == JsonRaises(stats_data.additional_stats)
              upsert_data == TeamStatRecord(row, g.id, league_season_id, stat_type)
              u == upsert(tbl, <<upsert_data>>, TeamStatConflictColumns,
                          DefaultUpdateColumns(TeamStatColumns, TeamStatConflictColumns),
                          {})
          IN IF bad \/ u.raised THEN RowRaised(g.teams, tbl)
             ELSE [teams |-> g.teams,
                   table |-> u.table,
                   counter |-> UpsertCounter(u.rowcount),
                   raised |-> FALSE]

(***************************************************************************)
(* load_player_stats.py: PlayerStatsLoader._extract_player_stats and one   *)
(* row of _process_player_stats.                                           *)
(***************************************************************************)
PlayerStatTypes ==
    <<"standard", "shooting", "passing", "defense", "possession", "goalkeeping">>

PlayerCommonFields ==
    <<[at |-> "stats", key |-> "matches_played", aliases |-> <<"games", "MP", "Matches">>, conv |-> "int"],
      [at |-> "stats", key |-> "starts", aliases |-> <<"games_starts", "Starts">>, conv |-> "int"],
      [at |-> "stats", key |-> "minutes_played", aliases |-> <<"minutes", "Min", "Minutes">>, conv |-> "int"]>>

PlayerFoulFields ==
    <<[at |-> "stats", key |-> "fouls_committed", aliases |-> <<"fouls", "Fls">>, conv |-> "int"],
      [at |-> "stats", key |-> "fouls_drawn", aliases |-> <<"fouled", "Fld">>, conv |-> "int"]>>

PlayerTypeFields(stat_type) ==
    CASE stat_type = "standard" ->
        <<[at |-> "stats", key |-> "goals", aliases |-> <<"goals", "Gls", "Goals">>, conv |-> "int"],
          [at |-> "stats", key |-> "assists", aliases |-> <<"assists", "Ast", "Assists">>, conv |-> "int"],
          [at |-> "stats", key |-> "penalty_goals", aliases |-> <<"pens_made", "PK">>, conv |-> "int"],
          [at |-> "stats", key |-> "penalty_attempts", aliases |-> <<"pens_att", "PKatt">>, conv |-> "int"],
          [at |-> "stats", key |-> "yellow_cards", aliases |-> <<"cards_yellow", "CrdY">>, conv |-> "int"],
          [at |-> "stats", key |-> "red_cards", aliases |-> <<"cards_red", "CrdR">>, conv |-> "int"],
          [at |-> "additional", key |-> "expected_goals", aliases |-> <<"xg", "xG">>, conv |-> "float"],
          [at |-> "additional", key |-> "expected_assists", aliases |-> <<"xg_assist", "xAG">>, conv |-> "float"]>>
      [] stat_type = "shooting" ->
        <<[at |-> "stats", key |-> "shots", aliases |-> <<"shots", "Sh">>, conv |-> "int"],
          [at |-> "stats", key |-> "shots_on_target", aliases |-> <<"shots_on_target", "SoT">>, conv |-> "int"],
          [at |-> "stats", key |-> "shots_on_target_pct", aliases |-> <<"shots_on_target_pct", "SoT%">>, conv |-> "float"],
          [at |-> "stats", key |-> "goals_per_shot", aliases |-> <<"goals_per_shot", "G/Sh">>, conv |-> "float"],
          [at |-> "additional", key |-> "shots_per_90", aliases |-> <<"shots_per90">>, conv |-> "float"]>>
      [] stat_type = "passing" ->
        <<[at |-> "stats", key |-> "passes_completed", aliases |-> <<"passes_completed", "Cmp">>, conv |-> "int"],
          [at |-> "stats", key |-> "passes_attempted", aliases |-> <<"passes", "Att">>, conv |-> "int"],
          [at |-> "stats", key |-> "pass_completion_pct", aliases |-> <<"passes_pct", "Cmp%">>, conv |-> "float"],
          [at |-> "stats", key |-> "key_passes", aliases |-> <<"assisted_shots", "KP">>, conv |-> "int"],
          [at |-> "additional", key |-> "progressive_passes", aliases |-> <<"progressive_passes">>, conv |-> "int"]>>
      [] stat_type = "defense" ->
        <<[at |-> "stats", key |-> "tackles", aliases |-> <<"tackles", "Tkl">>, conv |-> "int"],
          [at |-> "stats", key |-> "tackles_won", aliases |-> <<"tackles_won", "TklW">>, conv |-> "int"],
          [at |-> "stats", key |-> "interceptions", aliases |-> <<"interceptions", "Int">>, conv |-> "int"],
          [at |-> "stats", key |-> "blocks", aliases |-> <<"blocks", "Blocks">>, conv |-> "int"],
          [at |-> "stats", key |-> "clearances", aliases |-> <<"clearances", "Clr">>, conv |-> "int"]>>
      [] stat_type = "possession" ->
        <<[at |-> "additional", key |-> "touches", aliases |-> <<"touches", "Touches">>, conv |-> "int"],
          [at |-> "additional", key |-> "progressive_carries", aliases |-> <<"progressive_carries">>, conv |-> "int"],
          [at |-> "additional", key |-> "dribbles_completed", aliases |-> <<"take_ons_won">>, conv |-> "int"]>>
      [] stat_type = "goalkeeping" ->
        <<[at |-> "stats", key |-> "saves", aliases |-> <<"gk_saves", "Saves">>, conv |-> "int"],
          [at |-> "stats", key |-> "saves_pct", aliases |-> <<"gk_save_pct", "Save%">>, conv |-> "float"],
          [at |-> "stats", key |-> "clean_sheets", aliases |-> <<"gk_clean_sheets", "CS">>, conv |-> "int"],
          [at |-> "stats", key |-> "goals_against", aliases |-> <<"gk_goals_against", "GA">>, conv |-> "int"],
          [at |-> "additional", key |-> "penalty_saves", aliases |-> <<"gk_pens_save">>, conv |-> "int"]>>
      [] OTHER -> << >>

PlayerStatFields(stat_type) ==
    PlayerCommonFields \o PlayerTypeFields(stat_type) \o PlayerFoulFields

PlayerExcludeColumns ==
    {"player", "Player", "team", "Squad", "nationality", "Nation", "position", "Pos"}

\* the overflow value of a column: a Timestamp or any value that is no
\* int, float, str or bool is stringified
NativeValue(val) ==
    IF val.t \in {"int", "float", "str"} THEN val ELSE StrV(PyStr(val))

\* _extract_player_stats: [stats, additional_stats]
ExtractPlayerStats(row, stat_type) ==
    LET fields == PlayerStatFields(stat_type)
        keys == KeysAt(fields, "stats")
        preset == KeysAt(fields, "additional")
        others == {col \in DOMAIN row :
                      /\ col \notin PlayerExcludeColumns
                      /\ col \notin keys \cup {"additional_stats"}
                      /\ NotNa(row[col])}
    IN [stats |-> [key \in keys |-> FieldVal(row, fields, "stats", key)],
        additional_stats |->
            [key \in preset \cup others |->
                IF key \in others THEN NativeValue(row[key])
                ELSE FieldVal(row, fields, "additional", key)]]

PlayerStatColumns ==
    {"player_id", "team_id", "league_season_id", "stat_type",
     "matches_played", "starts", "minutes_played", "goals", "assists",
     "penalty_goals", "penalty_attempts", "shots", "shots_on_target",
     "shots_on_target_pct", "goals_per_shot", "passes_completed",
     "passes_attempted", "pass_completion_pct", "key_passes", "tackles",
     "tackles_won", "interceptions", "blocks", "clearances",
     "yellow_cards", "red_cards", "fouls_committed", "fouls_drawn",
     "saves", "saves_pct", "clean_sheets", "goals_against",
     "additional_stats"}

PlayerStatConflictColumns ==
    {"player_id", "team_id", "league_season_id", "stat_type"}

\* s.strip()
RECURSIVE Strip(_)
Strip(cs) ==
    IF cs = << >> THEN cs
    ELSE IF Head(cs) = " " THEN Strip(Tail(cs))
    ELSE IF cs[Len(cs)] = " " THEN Strip(SubSeq(cs, 1, Len(cs) - 1))
    ELSE cs

\* str(position).split(',')[0].strip()[:20]
CleanPosition(position) ==
    StrV(Truncate(Strip(Split(PyStr(position), ",")[1]), 20))

RowFailedP(pls, tms, tbl) ==
    [players |-> pls, teams |-> tms, table |-> tbl,
     counter |-> "failed", raised |-> FALSE]

RowRaisedP(pls, tms, tbl) ==
    [players |-> pls, teams |-> tms, table |-> tbl,
     counter |-> "failed", raised |-> TRUE]

\* one pass of the row loop: [players, teams, table, counter, raised]
ProcessPlayerStatRow(row, league_season_id, stat_type, pls, tms, tbl) ==
    LET player_name == RowGet(row, "player", "Player")
        team_name == RowGet(row, "team", "Squad")
    IN IF IsNa(player_name) \/ IsNa(team_name) THEN RowFailedP(pls, tms, tbl)
       ELSE
       LET nat == RowGet(row, "nationality", "Nation")
           nationality == IF NotNa(nat) THEN StrV(Truncate(PyStr(nat), 50)) ELSE None
           pos == RowGet(row, "position", "Pos")
           position == IF NotNa(pos) THEN CleanPosition(pos) ELSE None
           p == get_or_create_player(pls, PyStr(player_name), nationality, position)
       IN IF p.raised THEN RowRaisedP(pls, tms, tbl)
          ELSE
          LET g == get_or_create_team(tms, PyStr(team_name))
          IN IF g.raised THEN RowRaisedP(p.players, tms, tbl)
             ELSE
             LET stats_data == ExtractPlayerStats(row, stat_type)
                 additional == JsonDumps(stats_data.additional_stats)
                 bad == JsonRaises(stats_data.additional_stats)
                 upsert_data ==
                     [c \in PlayerStatColumns |->
                         CASE c = "player_id" -> p.id
                           [] c = "team_id" -> g.id
                           [] c = "league_season_id" -> league_season_id
                           [] c = "stat_type" -> stat_type
                           [] c = "additional_stats" -> additional
                           [] OTHER -> StatsGet(stats_data.stats, c)]
                 u == upsert(tbl, <<upsert_data>>, PlayerStatConflictColumns,
                             DefaultUpdateColumns(PlayerStatColumns,
                                                  PlayerStatConflictColumns),
                             {})
             IN IF bad \/ u.raised
                THEN RowRaisedP(p.players, g.teams, tbl)
                ELSE [players |-> p.players,
                      teams |-> g.teams,
                      table |-> u.table,
                      counter |-> UpsertCounter(u.rowcount),
                      raised |-> FALSE]

(***************************************************************************)
(* The state.                                                              *)
(***************************************************************************)
VARIABLES
    \* the database
    teams, players, matches, team_season_stats, player_season_stats,
    league_standings, data_load_log,
    \* DataLoadLogger.load_id of the loader (0: None)
    load_id,
    \* the category loader of this process
    loader,
    \* the loader call: its position, arguments and locals
    pc, args, league_season_id, k, df, idx, inserted, updated, failed,
    total_stats, result,
    \* the external source: what FBref answers to this call's requests
    source,
    \* history: first call or second, whether the second call repeats the
    \* first one's arguments and snapshot, the database when the call began,
    \* the requests made to the source, the row loop's last pass, the
    \* exceptions the call's except clauses have caught
    phase, replay, before, fetches, last, caught,
    \* the orchestrator
    orch, leagues, seasons, skip, li, sj, cat, total, units, calls, unit_errors,
    \* a caller of db_utils.py or of DataLoadLogger on its own: the operation
    \* it called last, and the connection pool with the position of the
    \* operation inside get_connection / get_cursor; the ids get_or_create_*
    \* has returned to that caller
    op, conn, issued

dbVars == <<teams, players, matches, team_season_stats, player_season_stats,
            league_standings, data_load_log>>
loopVars == <<df, idx, inserted, updated, failed>>
callVars == <<pc, args, league_season_id, k, total_stats, result, source>>
histVars == <<phase, replay, before, fetches, last, caught>>
orchVars == <<orch, leagues, seasons, skip, li, sj, cat, total, units, calls,
              unit_errors>>
auxVars == <<op, conn, issued>>
vars == <<dbVars, load_id, loader, callVars, loopVars, histVars, orchVars, auxVars>>

Loaders == {"matches", "team_stats", "player_stats", "standings"}

Counts(i, u, f) == [inserted |-> i, updated |-> u, failed |-> f]
ZeroCounts == Counts(0, 0, 0)
AddCounts(a, b) ==
    Counts(a.inserted + b.inserted, a.updated + b.updated, a.failed + b.failed)

NoResult == [kind |-> "none", stats |-> ZeroCounts, error |-> ""]
Returns(c) == [kind |-> "returned", stats |-> c, error |-> ""]
Raises(e) == [kind |-> "raised", stats |-> ZeroCounts, error |-> e]

Database ==
    [teams |-> teams, players |-> players, matches |-> matches,
     team_season_stats |-> team_season_stats,
     player_season_stats |-> player_season_stats,
     league_standings |-> league_standings,
     data_load_log |-> data_load_log]

NoPass == [valid |-> FALSE]

\* an exception caught by a loader's except clause while load_id was open
Caught(error, lid) == [error |-> error, load_id |-> lid]

(***************************************************************************)
(* The inputs: the rows the external source may hold.  All rows of one     *)
(* DataFrame have the same columns.                                        *)
(***************************************************************************)
TeamA == StrV(<<"A">>)
TeamB == StrV(<<"B">>)
Score21 == StrV(<<"2", "ndash", "1">>)
Score00 == StrV(<<"0", "ndash", "0">>)
\* a score written with an ASCII hyphen
ScoreHyphen == StrV(<<"2", "-", "1">>)

MatchRows ==
    { [home_team |-> h, away_team |-> TeamB, date |-> d, Score |-> sc] :
        h \in {TeamA}, d \in {DateV(1)}, sc \in {NaN, Score21, ScoreHyphen} }
    \cup
    { [home_team |-> TeamB, away_team |-> TeamA, date |-> DateV(1), Score |-> Score00],
      [home_team |-> TeamA, away_team |-> TeamB, date |-> NaN, Score |-> NaN],
      [home_team |-> StrV(<< >>), away_team |-> TeamB, date |-> DateV(1), Score |-> NaN] }
    \cup
    { [home_team |-> TeamA, away_team |-> TeamB, date |-> DateV(1),
       home_score |-> hs, away_score |-> as] :
        hs \in {FloatV(3)}, as \in {FloatV(1), NaN} }
    \cup
    { [home_team |-> TeamA, away_team |-> TeamB, date |-> DateV(1),
       home_score |-> NaN, away_score |-> NaN] }

TeamStatRows ==
    { [Squad |-> TeamA, W |-> IntV(1), Sh |-> IntV(5)],
      [Squad |-> TeamA, W |-> IntV(2), Sh |-> NaN],
      [Squad |-> NaN, W |-> IntV(1), Sh |-> IntV(5)],
      [Squad |-> TeamB, W |-> StrV(<<"x">>), Sh |-> IntV(7)] }
    \cup
    { [Squad |-> TeamA, W |-> IntV(1), Sh |-> IntV(5), Notes |-> ObjV(1)],
      [Squad |-> TeamA, W |-> IntV(3), Sh |-> IntV(5), Notes |-> StrV(<<"o", "k">>)] }
    \cup
    { [W |-> IntV(1), Sh |-> IntV(5)] }

PlayerX == StrV(<<"X">>)
PlayerY == StrV(<<"Y">>)

PlayerStatRows ==
    { [player |-> PlayerX, team |-> TeamA, Gls |-> IntV(1), Pos |-> StrV(<<"F", "W", ",", "M", "F">>)],
      [player |-> PlayerX, team |-> TeamA, Gls |-> NaN, Pos |-> StrV(<<"F", "W">>)],
      [player |-> PlayerX, team |-> TeamB, Gls |-> IntV(2), Pos |-> NaN],
      [player |-> NaN, team |-> TeamA, Gls |-> IntV(1), Pos |-> NaN],
      [player |-> StrV(<<"Y", "NUL">>), team |-> TeamA, Gls |-> IntV(1), Pos |-> NaN] }
    \cup
    { [player |-> PlayerY, team |-> TeamA, Gls |-> IntV(4), born |-> ObjV(1)] }

StandingRows ==
    { [Squad |-> TeamA, W |-> IntV(1), GF |-> IntV(2), GA |-> IntV(1)],
      [Squad |-> TeamA, W |-> IntV(2), GF |-> IntV(4), GA |-> NaN],
      [Squad |-> TeamB, W |-> IntV(0), GF |-> IntV(1), GA |-> IntV(3)],
      [Squad |-> NaN, W |-> IntV(1), GF |-> IntV(2), GA |-> IntV(1)] }
    \cup
    { [Squad |-> TeamA, Rk |-> IntV(3), GD |-> IntV(5)],
      [Squad |-> TeamA, Rk |-> StrV(<<"x">>), GD |-> IntV(5)] }
    \cup
    { [W |-> IntV(1)] }

RowsOf(ld) ==
    CASE ld = "matches" -> MatchRows
      [] ld = "team_stats" -> TeamStatRows
      [] ld = "player_stats" -> PlayerStatRows
      [] ld = "standings" -> StandingRows

SameColumns(d) == \A i, j \in 1..Len(d) : DOMAIN d[i] = DOMAIN d[j]

\* the DataFrames of at most n rows
Frames(ld, n) ==
    UNION { {d \in [1..m -> RowsOf(ld)] : SameColumns(d)} : m \in 0..n }

\* what one read_* request gives: an exception, or a DataFrame
Answers(ld, n) ==
    {[ok |-> FALSE, df |-> << >>]} \cup {[ok |-> TRUE, df |-> d] : d \in Frames(ld, n)}

RECURSIVE TotalRows(_)
TotalRows(tables) ==
    IF tables = << >> THEN 0 ELSE Len(Head(tables).df) + TotalRows(Tail(tables))

\* the snapshots of the source for a call that makes n requests: MaxRows
\* bounds the rows of the tables and the requests after the first
Snapshots(ld, n) ==
    {t \in [1..n -> Answers(ld, MaxRows - (n - 1))] :
        TotalRows(t) + (n - 1) <= MaxRows}

\* the (league, season) units a loader is called for; the second is no row
\* of league_seasons
Units ==
    { [league_code |-> "ENG", season |-> <<2020, 2021>>],
      [league_code |-> "ITA", season |-> <<2020, 2021>>] }

\* the stat_types arguments of the two stat loaders
StatTypeLists == { <<"standard">>, <<"standard", "shooting">> }

StandingDates == {DateV(7)}

(***************************************************************************)
(* The category loaders.                                                   *)
(***************************************************************************)
LoadType(ld, stat_type) ==
    CASE ld = "matches" -> <<"matches_load">>
      [] ld = "standings" -> <<"standings_load">>
      [] ld = "team_stats" -> <<"team_stats", stat_type>>
      [] ld = "player_stats" -> <<"player_stats", stat_type>>

TargetTable(ld) ==
    CASE ld = "matches" -> "matches"
      [] ld = "standings" -> "league_standings"
      [] ld = "team_stats" -> "team_season_stats"
      [] ld = "player_stats" -> "player_season_stats"

\* NotFound as it would be without the check
NotFoundNever(lsid) == FALSE

\* `if not league_season_id`
NotFound(lsid) == lsid = 0

\* a loader is called when the process starts, and once more after its
\* first call has returned or raised
CanCall == pc = "idle" \/ (pc \in {"returned", "raised"} /\ phase = "first")

\* what every call sets when it begins
BeginCall(a, src) ==
    /\ args' = a
    /\ source' = src
    /\ league_season_id' = get_league_season_id(a.league_code, a.season)
    /\ phase' = IF pc = "idle" THEN "first" ELSE "again"
    /\ replay' = (pc # "idle" /\ a = args /\ src = source)
    /\ before' = Database
    /\ fetches' = 0
    /\ last' = NoPass
    /\ caught' = << >>
    /\ df' = << >>
    /\ idx' = 0
    /\ inserted' = 0
    /\ updated' = 0
    /\ failed' = 0
    /\ total_stats' = ZeroCounts
    /\ k' = 1

\* the source's answers to a call: whether sd.FBref(...) constructs in the
\* stats loaders, and the table (or the failure) each request gets; the
\* source has nothing for a unit that league_seasons does not hold
SnapshotsFor(ld, a, n) ==
    IF get_league_season_id(a.league_code, a.season) = 0
    THEN {[scraper |-> TRUE, tables |-> [i \in 1..n |-> [ok |-> FALSE, df |-> << >>]]]}
    ELSE {[scraper |-> TRUE, tables |-> t] : t \in Snapshots(ld, n)}
         \cup (IF ld \in {"team_stats", "player_stats"}
               THEN {[scraper |-> FALSE, tables |-> << >>]} ELSE {})

\* load_matches_for_league_season / load_standings_for_league_season up to
\* start_load
StartCategory(ld, a, src) ==
    /\ loader = ld
    /\ CanCall
    /\ BeginCall(a, src)
    /\ LET lsid == get_league_season_id(a.league_code, a.season)
           st == start_load(data_load_log, LoadType(ld, ""), TargetTable(ld), lsid)
       IN IF NotFound(lsid)
          THEN /\ pc' = "returned"
               /\ result' = Returns(ZeroCounts)
               /\ UNCHANGED <<data_load_log, load_id>>
          ELSE /\ pc' = "fetch"
               /\ result' = NoResult
               /\ data_load_log' = st.log
               /\ load_id' = st.load_id
    /\ UNCHANGED <<teams, players, matches, team_season_stats,
                   player_season_stats, league_standings, loader, auxVars, orchVars>>

load_matches_for_league_season ==
    \E u \in Units :
        LET a == [league_code |-> u.league_code, season |-> u.season,
                  stat_types |-> << >>, standing_date |-> None]
        IN \E src \in SnapshotsFor("matches", a, 1) : StartCategory("matches", a, src)

load_standings_for_league_season ==
    \E u \in Units, sd \in StandingDates :
        LET a == [league_code |-> u.league_code, season |-> u.season,
                  stat_types |-> << >>, standing_date |-> sd]
        IN \E src \in SnapshotsFor("standings", a, 1) :
              StartCategory("standings", a, src)

ErrorContext(ld) ==
    CASE ld = "matches" -> <<"Loading matches">>
      [] ld = "standings" -> <<"Loading standings">>

\* the try block of load_matches_for_league_season and of
\* load_standings_for_league_season up to the call of _process_*: the
\* scraper and its read_schedule / read_league_table
FetchCategory(ld) ==
    /\ loader = ld
    /\ pc = "fetch"
    /\ fetches' = fetches + 1
    /\ IF ~source.tables[1].ok
       THEN LET e == log_error(data_load_log, load_id, "SourceUnavailable",
                               ErrorContext(ld))
            IN /\ data_load_log' = e.log
               /\ load_id' = e.load_id
               /\ pc' = "raised"
               /\ result' = Raises("SourceUnavailable")
               /\ caught' = Append(caught, Caught("SourceUnavailable", load_id))
               /\ UNCHANGED df
       ELSE IF source.tables[1].df = << >>
       THEN LET c == complete_load(data_load_log, load_id, "completed", NoMessage)
            IN /\ data_load_log' = c.log
               /\ load_id' = c.load_id
               /\ pc' = "returned"
               /\ result' = Returns(ZeroCounts)
               /\ UNCHANGED <<df, caught>>
       ELSE /\ df' = source.tables[1].df
            /\ pc' = "rows"
            /\ UNCHANGED <<data_load_log, load_id, result, caught>>
    /\ UNCHANGED <<teams, players, matches, team_season_stats,
                   player_season_stats, league_standings, loader, auxVars, args,
                   league_season_id, k, total_stats, source, idx, inserted,
                   updated, failed, phase, replay, before, last, orchVars>>

fetch_schedule == FetchCategory("matches")

fetch_league_table == FetchCategory("standings")

\* the counters after a pass of the row loop
Count(counter, name, n) == IF counter = name THEN n + 1 ELSE n

\* what the row loop's pass leaves in `last`: the row, the storage it
\* found, its outcome, and the rows of this loop that raised or were
\* rejected so far
Pass(row, out, tms, pls, tbl) ==
    [valid |-> TRUE, row |-> row, idx |-> idx, counter |-> out.counter,
     raised |-> out.raised, teams |-> tms, players |-> pls, table |-> tbl,
     raises |-> (IF idx = 0 THEN 0 ELSE last.raises)
                + (IF out.raised THEN 1 ELSE 0),
     rejects |-> (IF idx = 0 THEN 0 ELSE last.rejects)
                 + (IF out.counter = "failed" /\ ~out.raised THEN 1 ELSE 0)]

\* _process_matches: one pass of the row loop
process_matches_row ==
    /\ loader = "matches"
    /\ pc = "rows"
    /\ idx < Len(df)
    /\ LET row == df[idx + 1]
           out == ProcessMatchRow(row, league_season_id, teams, matches)
       IN /\ teams' = out.teams
          /\ matches' = out.table
          /\ inserted' = Count(out.counter, "inserted", inserted)
          /\ updated' = Count(out.counter, "updated", updated)
          /\ failed' = Count(out.counter, "failed", failed)
          /\ last' = Pass(row, out, teams, players, matches)
    /\ idx' = idx + 1
    /\ UNCHANGED <<players, team_season_stats, player_season_stats,
                   league_standings, data_load_log, load_id, loader, auxVars, callVars,
                   df, phase, replay, before, fetches, caught, orchVars>>

\* _process_standings and _process_team_stats when the DataFrame has no
\* team column: every row is counted as failed
NoTeamColumn(ld) ==
    /\ loader = ld
    /\ pc = "rows"
    /\ idx = 0
    /\ Len(df) > 0
    /\ TeamColumn(df) = ""
    /\ failed' = Len(df)
    /\ idx' = Len(df)
    /\ UNCHANGED <<dbVars, load_id, loader, auxVars, callVars, df, inserted, updated,
                   histVars, orchVars>>

process_standings_no_team_column == NoTeamColumn("standings")

process_team_stats_no_team_column == NoTeamColumn("team_stats")

\* _process_standings: one pass of the row loop
process_standings_row ==
    /\ loader = "standings"
    /\ pc = "rows"
    /\ idx < Len(df)
    /\ TeamColumn(df) # ""
    /\ LET row == df[idx + 1]
           out == ProcessStandingRow(row, idx, TeamColumn(df), league_season_id,
                                     args.standing_date, teams, league_standings)
       IN /\ teams' = out.teams
          /\ league_standings' = out.table
          /\ inserted' = Count(out.counter, "inserted", inserted)
          /\ updated' = Count(out.counter, "updated", updated)
          /\ failed' = Count(out.counter, "failed", failed)
          /\ last' = Pass(row, out, teams, players, league_standings)
    /\ idx' = idx + 1
    /\ UNCHANGED <<players, matches, team_season_stats, player_season_stats,
                   data_load_log, load_id, loader, auxVars, callVars, df, phase, replay,
                   before, fetches, caught, orchVars>>

\* the rest of the try block of load_matches_for_league_season and of
\* load_standings_for_league_season, and its except clause:
\* update_progress, complete_load, return; update_progress may raise
FinishCategory(ld) ==
    /\ loader = ld
    /\ pc = "rows"
    /\ idx = Len(df)
    /\ \E progress_ok \in BOOLEAN :
          IF progress_ok
          THEN LET p == update_progress(data_load_log, load_id, Len(df),
                                        inserted, updated, failed)
                   c == complete_load(p, load_id, "completed", NoMessage)
               IN /\ data_load_log' = c.log
                  /\ load_id' = c.load_id
                  /\ pc' = "returned"
                  /\ result' = Returns(Counts(inserted, updated, failed))
                  /\ UNCHANGED caught
          ELSE LET e == log_error(data_load_log, load_id, "DatabaseError",
                                  ErrorContext(ld))
               IN /\ data_load_log' = e.log
                  /\ load_id' = e.load_id
                  /\ pc' = "raised"
                  /\ result' = Raises("DatabaseError")
                  /\ caught' = Append(caught, Caught("DatabaseError", load_id))
    /\ UNCHANGED <<teams, players, matches, team_season_stats,
                   player_season_stats, league_standings, loader, auxVars, args,
                   league_season_id, k, total_stats, source, loopVars,
                   phase, replay, before, fetches, last, orchVars>>

finish_matches == FinishCategory("matches")

finish_standings == FinishCategory("standings")

\* load_team_stats_for_league_season / load_player_stats_for_league_season
\* up to the loop over the stat types
StartStats(ld, a, src) ==
    /\ loader = ld
    /\ CanCall
    /\ BeginCall(a, src)
    /\ LET lsid == get_league_season_id(a.league_code, a.season)
       IN IF NotFound(lsid)
          THEN /\ pc' = "returned"
               /\ result' = Returns(ZeroCounts)
          ELSE IF ~src.scraper
          THEN /\ pc' = "raised"
               /\ result' = Raises("ScraperError")
          ELSE /\ pc' = "stat"
               /\ result' = NoResult
    /\ UNCHANGED <<dbVars, load_id, loader, auxVars, orchVars>>

load_team_stats_for_league_season ==
    \E u \in Units, sts \in StatTypeLists :
        LET a == [league_code |-> u.league_code, season |-> u.season,
                  stat_types |-> sts, standing_date |-> None]
        IN \E src \in SnapshotsFor("team_stats", a, Len(sts)) :
              StartStats("team_stats", a, src)

load_player_stats_for_league_season ==
    \E u \in Units, sts \in StatTypeLists :
        LET a == [league_code |-> u.league_code, season |-> u.season,
                  stat_types |-> sts, standing_date |-> None]
        IN \E src \in SnapshotsFor("player_stats", a, Len(sts)) :
              StartStats("player_stats", a, src)

\* the loop's `continue`, and the return after the last stat type
NextStat(totals) ==
    /\ total_stats' = totals
    /\ IF k < Len(args.stat_types)
       THEN /\ k' = k + 1
            /\ pc' = "stat"
            /\ result' = NoResult
       ELSE /\ k' = k
            /\ pc' = "returned"
            /\ result' = Returns(totals)

StatContext(ld, stat_type) == <<"Loading", stat_type, "stats">>

\* one stat type of the stats loaders up to the call of _process_*:
\* start_load, then the read of the source
FetchStat(ld) ==
    /\ loader = ld
    /\ pc = "stat"
    /\ fetches' = fetches + 1
    /\ LET stat_type == args.stat_types[k]
           st == start_load(data_load_log, LoadType(ld, stat_type),
                            TargetTable(ld), league_season_id)
           answer == source.tables[k]
       IN IF ~answer.ok
          THEN LET e == log_error(st.log, st.load_id, "SourceUnavailable",
                                  StatContext(ld, stat_type))
               IN /\ data_load_log' = e.log
                  /\ load_id' = e.load_id
                  /\ caught' = Append(caught, Caught("SourceUnavailable", st.load_id))
                  /\ NextStat(total_stats)
                  /\ UNCHANGED loopVars
          ELSE IF answer.df = << >>
          THEN LET c == complete_load(st.log, st.load_id, "completed", NoMessage)
               IN /\ data_load_log' = c.log
                  /\ load_id' = c.load_id
                  /\ NextStat(total_stats)
                  /\ UNCHANGED <<loopVars, caught>>
          ELSE /\ data_load_log' = st.log
               /\ load_id' = st.load_id
               /\ df' = answer.df
               /\ idx' = 0
               /\ inserted' = 0
               /\ updated' = 0
               /\ failed' = 0
               /\ pc' = "rows"
               /\ UNCHANGED <<k, total_stats, result, caught>>
    /\ last' = NoPass
    /\ UNCHANGED <<teams, players, matches, team_season_stats,
                   player_season_stats, league_standings, loader, auxVars, args,
                   league_season_id, source, phase, replay, before, orchVars>>

fetch_team_season_stats == FetchStat("team_stats")

fetch_player_season_stats == FetchStat("player_stats")

\* _process_team_stats: one pass of the row loop
process_team_stats_row ==
    /\ loader = "team_stats"
    /\ pc = "rows"
    /\ idx < Len(df)
    /\ TeamColumn(df) # ""
    /\ LET row == df[idx + 1]
           out == ProcessTeamStatRow(row, TeamColumn(df), league_season_id,
                                     args.stat_types[k], teams, team_season_stats)
       IN /\ teams' = out.teams
          /\ team_season_stats' = out.table
          /\ inserted' = Count(out.counter, "inserted", inserted)
          /\ updated' = Count(out.counter, "updated", updated)
          /\ failed' = Count(out.counter, "failed", failed)
          /\ last' = Pass(row, out, teams, players, team_season_stats)
    /\ idx' = idx + 1
    /\ UNCHANGED <<players, matches, player_season_stats, league_standings,
                   data_load_log, load_id, loader, auxVars, callVars, df, phase, replay,
                   before, fetches, caught, orchVars>>

\* _process_player_stats: one pass of the row loop
process_player_stats_row ==
    /\ loader = "player_stats"
    /\ pc = "rows"
    /\ idx < Len(df)
    /\ LET row == df[idx + 1]
           out == ProcessPlayerStatRow(row, league_season_id, args.stat_types[k],
                                       players, teams, player_season_stats)
       IN /\ players' = out.players
          /\ teams' = out.teams
          /\ player_season_stats' = out.table
          /\ inserted' = Count(out.counter, "inserted", inserted)
          /\ updated' = Count(out.counter, "updated", updated)
          /\ failed' = Count(out.counter, "failed", failed)
          /\ last' = Pass(row, out, teams, players, player_season_stats)
    /\ idx' = idx + 1
    /\ UNCHANGED <<matches, team_season_stats, league_standings,
                   data_load_log, load_id, loader, auxVars, callVars, df, phase, replay,
                   before, fetches, caught, orchVars>>

\* FinishStat as it would be if the totals were updated after complete_load
FinishStatTotalsLast(ld) ==
    /\ loader = ld
    /\ pc = "rows"
    /\ idx = Len(df)
    /\ LET totals == AddCounts(total_stats, Counts(inserted, updated, failed))
       IN \E progress_ok \in BOOLEAN :
             /\ IF progress_ok
                THEN LET p == update_progress(data_load_log, load_id, Len(df),
                                              inserted, updated, failed)
                         c == complete_load(p, load_id, "completed", NoMessage)
                     IN /\ data_load_log' = c.log
                        /\ load_id' = c.load_id
                        /\ UNCHANGED caught
                ELSE LET e == log_error(data_load_log, load_id, "DatabaseError",
                                        StatContext(ld, args.stat_types[k]))
                     IN /\ data_load_log' = e.log
                        /\ load_id' = e.load_id
                        /\ caught' = Append(caught, Caught("DatabaseError", load_id))
             /\ NextStat(IF progress_ok THEN totals ELSE total_stats)
    /\ UNCHANGED <<teams, players, matches, team_season_stats,
                   player_season_stats, league_standings, loader, auxVars, args,
                   league_season_id, source, loopVars, phase, replay, before,
                   fetches, last, orchVars>>

\* the rest of one stat type's try block, and its except clause: the totals,
\* update_progress, complete_load; update_progress may raise, and the except
\* clause records the failure and goes on to the next stat type
FinishStat(ld) ==
    /\ loader = ld
    /\ pc = "rows"
    /\ idx = Len(df)
    /\ LET totals == AddCounts(total_stats, Counts(inserted, updated, failed))
       IN \E progress_ok \in BOOLEAN :
             /\ IF progress_ok
                THEN LET p == update_progress(data_load_log, load_id, Len(df),
                                              inserted, updated, failed)
                         c == complete_load(p, load_id, "completed", NoMessage)
                     IN /\ data_load_log' = c.log
                        /\ load_id' = c.load_id
                        /\ UNCHANGED caught
                ELSE LET e == log_error(data_load_log, load_id, "DatabaseError",
                                        StatContext(ld, args.stat_types[k]))
                     IN /\ data_load_log' = e.log
                        /\ load_id' = e.load_id
                        /\ caught' = Append(caught, Caught("DatabaseError", load_id))
             /\ NextStat(totals)
    /\ UNCHANGED <<teams, players, matches, team_season_stats,
                   player_season_stats, league_standings, loader, auxVars, args,
                   league_season_id, source, loopVars, phase, replay, before,
                   fetches, last, orchVars>>

finish_team_stats == FinishStat("team_stats")

finish_player_stats == FinishStat("player_stats")

(***************************************************************************)
(* A category loader's process: the loader is called, runs to its return   *)
(* or its exception, and is called once more.                              *)
(***************************************************************************)
NoArgs == [league_code |-> "", season |-> <<0, 0>>, stat_types |-> << >>,
           standing_date |-> None]

NoSource == [scraper |-> TRUE, tables |-> << >>]

EmptyDatabase ==
    /\ teams = << >>
    /\ players = << >>
    /\ matches = << >>
    /\ team_season_stats = << >>
    /\ player_season_stats = << >>
    /\ league_standings = << >>
    /\ data_load_log = << >>

NoCall ==
    /\ load_id = 0
    /\ pc = "idle"
    /\ args = NoArgs
    /\ league_season_id = 0
    /\ k = 1
    /\ df = << >>
    /\ idx = 0
    /\ inserted = 0
    /\ updated = 0
    /\ failed = 0
    /\ total_stats = ZeroCounts
    /\ result = NoResult
    /\ source = NoSource
    /\ phase = "none"
    /\ replay = FALSE
    /\ fetches = 0
    /\ last = NoPass
    /\ caught = << >>

NoOrchestrator ==
    /\ orch = "none"
    /\ leagues = << >>
    /\ seasons = << >>
    /\ skip = {}
    /\ li = 1
    /\ sj = 1
    /\ cat = 1
    /\ total = [c \in Loaders |-> ZeroCounts]
    /\ units = << >>
    /\ calls = << >>
    /\ unit_errors = 0

NoOperation == [name |-> "none"]

NoConnection == [pc |-> "closed", held |-> 0, puts |-> 0, exc |-> "none"]

NoCaller ==
    /\ op = NoOperation
    /\ conn = NoConnection
    /\ issued = {}

Init ==
    /\ EmptyDatabase
    /\ NoCall
    /\ before = Database
    /\ loader \in Loaders
    /\ NoOrchestrator
    /\ NoCaller

Next ==
    \/ load_matches_for_league_season
    \/ fetch_schedule
    \/ process_matches_row
    \/ finish_matches
    \/ load_standings_for_league_season
    \/ fetch_league_table
    \/ process_standings_no_team_column
    \/ process_standings_row
    \/ finish_standings
    \/ load_team_stats_for_league_season
    \/ fetch_team_season_stats
    \/ process_team_stats_no_team_column
    \/ process_team_stats_row
    \/ finish_team_stats
    \/ load_player_stats_for_league_season
    \/ fetch_player_season_stats
    \/ process_player_stats_row
    \/ finish_player_stats

Spec == Init /\ [][Next]_vars

(***************************************************************************)
(* The orchestrators.  A call of a category loader is one step; whether it *)
(* returns counts or raises is the step's input.                           *)
(***************************************************************************)
\* Categories as it would be with the standings block moved up
CategoriesStandingsSecond ==
    <<"matches", "standings", "team_stats", "player_stats">>

\* the order of the four blocks in the body of a unit
Categories == <<"matches", "team_stats", "player_stats", "standings">>

AllLeagues == <<"ENG", "ESP", "ITA", "GER">>

\* the leagues arguments: the first leagues of AllLeagues or of its reverse
LeagueLists ==
    { [i \in 1..n |-> AllLeagues[i]] : n \in 0..MaxLeagues }
    \cup { [i \in 1..n |-> AllLeagues[Len(AllLeagues) + 1 - i]] : n \in 1..MaxLeagues }

\* a season label 'Y-(Y+1)'
SeasonLabel(year) == <<year, year + 1>>

FirstYear == 2020

\* the (start_season, end_season) arguments; the end may precede the start
SeasonRanges ==
    { [start_season |-> SeasonLabel(FirstYear + 1),
       end_season |-> SeasonLabel(FirstYear + n)] : n \in 0..MaxSeasons }

\* _generate_seasons as it would be with range(start_year, end_year)
generate_seasons_exclusive(start_season, end_season) ==
    LET start_year == start_season[1]
        end_year == end_season[1]
    IN [i \in 1..(end_year - start_year) |-> SeasonLabel(start_year + i - 1)]

\* _generate_seasons(start_season, end_season)
generate_seasons(start_season, end_season) ==
    LET start_year == start_season[1]
        end_year == end_season[1]
    IN [i \in 1..(end_year + 1 - start_year) |-> SeasonLabel(start_year + i - 1)]

\* the skip_* arguments of load_all_historical_data
SkipSets == { {}, {"team_stats"}, {"matches", "standings"} }

\* the update_* arguments of run_daily_update as the categories they skip:
\* update_stats governs both stat categories
DailySkip(update_matches, update_stats, update_standings) ==
    (IF update_matches THEN {} ELSE {"matches"})
    \cup (IF update_stats THEN {} ELSE {"team_stats", "player_stats"})
    \cup (IF update_standings THEN {} ELSE {"standings"})

\* what a category loader gives its caller: the counts it returns, or one of
\* the exceptions it re-raises
LoaderReturns == {Counts(1, 0, 1)}

LoaderRaises == {"SourceUnavailable", "DatabaseError", "ScraperError"}

\* ExceptException as it would be for `except ConnectionError`
ExceptConnectionError(e) == e \in {"SourceUnavailable"}

\* `except Exception`: the classes the clause catches
ExceptException(e) == e \in {"SourceUnavailable", "DatabaseError", "ScraperError"}

StartOrchestrator(kind, given, ls, ss, sk) ==
    /\ loader = "orchestrator"
    /\ pc = "idle"
    /\ orch' = kind
    /\ args' = given
    /\ leagues' = ls
    /\ seasons' = ss
    /\ skip' = sk
    /\ li' = 1
    /\ sj' = 1
    /\ cat' = 1
    /\ total' = [c \in Loaders |-> ZeroCounts]
    /\ pc' = "loop"
    /\ UNCHANGED <<dbVars, load_id, loader, auxVars, league_season_id, k,
                   total_stats, result, source, loopVars, histVars, units,
                   calls, unit_errors>>

\* load_all_historical_data up to its loops
load_all_historical_data ==
    \E ls \in LeagueLists, r \in SeasonRanges, sk \in SkipSets :
        StartOrchestrator("historical", r, ls,
                          generate_seasons(r.start_season, r.end_season), sk)

\* run_daily_update up to its loop
run_daily_update ==
    \E ls \in LeagueLists, current_season \in {SeasonLabel(FirstYear)},
       update_matches \in BOOLEAN, update_stats \in BOOLEAN,
       update_standings \in BOOLEAN :
        StartOrchestrator("daily", [current_season |-> current_season], ls,
                          <<current_season>>,
                          DailySkip(update_matches, update_stats, update_standings))

\* the loops are over: no league is left, or there is no season
LoopsDone == li > Len(leagues) \/ seasons = << >>

\* the loops go on to the next unit
NextUnit ==
    /\ cat' = 1
    /\ IF sj < Len(seasons)
       THEN sj' = sj + 1 /\ li' = li
       ELSE sj' = 1 /\ li' = li + 1

\* after the block of category c: the next block, or the next unit
NextCategory(c) ==
    IF c < Len(Categories)
    THEN cat' = c + 1 /\ UNCHANGED <<li, sj>>
    ELSE NextUnit

\* CategoryBlock as it would be with a try/except around each category
CategoryBlockOwnExcept(kind, c) ==
    /\ loader = "orchestrator"
    /\ orch = kind
    /\ pc = "loop"
    /\ ~LoopsDone
    /\ cat = c
    /\ units' = IF c = 1 THEN Append(units, <<li, sj>>) ELSE units
    /\ LET called == IF c = 1 THEN << >> ELSE calls
       IN IF Categories[c] \in skip
          THEN /\ calls' = called
               /\ NextCategory(c)
               /\ UNCHANGED <<pc, total, unit_errors>>
          ELSE \/ \E stats \in LoaderReturns :
                     /\ calls' = Append(called, [category |-> Categories[c],
                                                 league_code |-> leagues[li],
                                                 season |-> seasons[sj],
                                                 outcome |-> "returned"])
                     /\ total' = [total EXCEPT ![Categories[c]] =
                                      AddCounts(@, stats)]
                     /\ NextCategory(c)
                     /\ UNCHANGED <<pc, unit_errors>>
               \/ \E e \in LoaderRaises :
                     /\ calls' = Append(called, [category |-> Categories[c],
                                                 league_code |-> leagues[li],
                                                 season |-> seasons[sj],
                                                 outcome |-> "raised"])
                     /\ IF ExceptException(e)
                        THEN /\ unit_errors' = unit_errors + 1
                             /\ NextCategory(c)
                             /\ UNCHANGED pc
                        ELSE /\ pc' = "escaped"
                             /\ UNCHANGED <<unit_errors, li, sj, cat>>
                     /\ UNCHANGED total
    /\ UNCHANGED <<dbVars, load_id, loader, auxVars, args, league_season_id, k,
                   total_stats, result, source, loopVars, histVars, orch,
                   leagues, seasons, skip>>

\* the block of category c in the body of a unit, and the unit's except
\* clause when the loader raises
CategoryBlock(kind, c) ==
    /\ loader = "orchestrator"
    /\ orch = kind
    /\ pc = "loop"
    /\ ~LoopsDone
    /\ cat = c
    /\ units' = IF c = 1 THEN Append(units, <<li, sj>>) ELSE units
    /\ LET called == IF c = 1 THEN << >> ELSE calls
       IN IF Categories[c] \in skip
          THEN /\ calls' = called
               /\ NextCategory(c)
               /\ UNCHANGED <<pc, total, unit_errors>>
          ELSE \/ \E stats \in LoaderReturns :
                     /\ calls' = Append(called, [category |-> Categories[c],
                                                 league_code |-> leagues[li],
                                                 season |-> seasons[sj],
                                                 outcome |-> "returned"])
                     /\ total' = [total EXCEPT ![Categories[c]] =
                                      AddCounts(@, stats)]
                     /\ NextCategory(c)
                     /\ UNCHANGED <<pc, unit_errors>>
               \/ \E e \in LoaderRaises :
                     /\ calls' = Append(called, [category |-> Categories[c],
                                                 league_code |-> leagues[li],
                                                 season |-> seasons[sj],
                                                 outcome |-> "raised"])
                     /\ IF ExceptException(e)
                        THEN /\ unit_errors' = unit_errors + 1
                             /\ NextUnit
                             /\ UNCHANGED pc
                        ELSE /\ pc' = "escaped"
                             /\ UNCHANGED <<unit_errors, li, sj, cat>>
                     /\ UNCHANGED total
    /\ UNCHANGED <<dbVars, load_id, loader, auxVars, args, league_season_id, k,
                   total_stats, result, source, loopVars, histVars, orch,
                   leagues, seasons, skip>>

historical_matches == CategoryBlock("historical", 1)
historical_team_stats == CategoryBlock("historical", 2)
historical_player_stats == CategoryBlock("historical", 3)
historical_standings == CategoryBlock("historical", 4)
daily_matches == CategoryBlock("daily", 1)
daily_team_stats == CategoryBlock("daily", 2)
daily_player_stats == CategoryBlock("daily", 3)
daily_standings == CategoryBlock("daily", 4)

\* the summary after the loops
Summary(kind) ==
    /\ loader = "orchestrator"
    /\ orch = kind
    /\ pc = "loop"
    /\ LoopsDone
    /\ pc' = "done"
    /\ UNCHANGED <<dbVars, load_id, loader, auxVars, args, league_season_id, k,
                   total_stats, result, source, loopVars, histVars, orchVars>>

historical_summary == Summary("historical")
daily_summary == Summary("daily")

InitOrch ==
    /\ EmptyDatabase
    /\ NoCall
    /\ before = Database
    /\ loader = "orchestrator"
    /\ NoOrchestrator
    /\ NoCaller

NextOrch ==
    \/ load_all_historical_data
    \/ historical_matches
    \/ historical_team_stats
    \/ historical_player_stats
    \/ historical_standings
    \/ historical_summary
    \/ run_daily_update
    \/ daily_matches
    \/ daily_team_stats
    \/ daily_player_stats
    \/ daily_standings
    \/ daily_summary

SpecOrch == InitOrch /\ [][NextOrch]_vars

\* the orchestrator is one thread that runs on while it has a step to take
SpecOrchFair == SpecOrch /\ WF_vars(NextOrch)

(***************************************************************************)
(* A DataLoadLogger on its own: a caller that calls its four methods in    *)
(* any order.  Each method runs its statements through execute_query,      *)
(* which may raise; a statement that raised has changed nothing.           *)
(***************************************************************************)
TrackerStatuses == {"completed", "failed", "partial"}

\* the arguments of update_progress; an argument left out is its default 0
Progress(p, i, u, f) == [processed |-> p, inserted |-> i, updated |-> u, failed |-> f]

TrackerProgress ==
    {Progress(1, 1, 0, 0), Progress(2, 0, 1, 1), Progress(1, 0, 0, 0),
     Progress(0, 0, 0, 0)}

TrackerContexts == {<< >>, <<"Loading matches">>}

\* what op holds after a call of a method: the method, the tracker's
\* load_id when it was called, and whether its statement ran
Called(name, ok) == [name |-> name, load_id |-> load_id, ok |-> ok]

TrackerFrame ==
    UNCHANGED <<teams, players, matches, team_season_stats,
                player_season_stats, league_standings, loader, callVars,
                loopVars, histVars, orchVars, conn, issued>>

call_start_load ==
    /\ loader = "tracker"
    /\ Len(data_load_log) < MaxLoads
    /\ \E ld \in {"matches", "standings"}, ok \in BOOLEAN :
          LET st == start_load(data_load_log, LoadType(ld, ""), TargetTable(ld), 1)
          IN /\ op' = Called("start_load", ok)
             /\ IF ok
                THEN data_load_log' = st.log /\ load_id' = st.load_id
                ELSE UNCHANGED <<data_load_log, load_id>>
    /\ TrackerFrame

call_update_progress ==
    /\ loader = "tracker"
    /\ \E c \in TrackerProgress, ok \in BOOLEAN :
          /\ op' = Called("update_progress", ok \/ load_id = 0) @@ [given |-> c]
          /\ IF ok
             THEN data_load_log' =
                      update_progress(data_load_log, load_id, c.processed,
                                      c.inserted, c.updated, c.failed)
             ELSE UNCHANGED data_load_log
    /\ UNCHANGED load_id
    /\ TrackerFrame

call_complete_load ==
    /\ loader = "tracker"
    /\ \E status \in TrackerStatuses, ok \in BOOLEAN :
          LET c == complete_load(data_load_log, load_id, status, NoMessage)
          IN /\ op' = Called("complete_load", ok \/ load_id = 0)
             /\ IF ok
                THEN data_load_log' = c.log /\ load_id' = c.load_id
                ELSE UNCHANGED <<data_load_log, load_id>>
    /\ TrackerFrame

call_log_error ==
    /\ loader = "tracker"
    /\ \E context \in TrackerContexts, ok \in BOOLEAN :
          LET e == log_error(data_load_log, load_id, "DatabaseError", context)
          IN /\ op' = Called("log_error", ok \/ load_id = 0)
             /\ IF ok
                THEN data_load_log' = e.log /\ load_id' = e.load_id
                ELSE UNCHANGED <<data_load_log, load_id>>
    /\ TrackerFrame

InitTracker ==
    /\ EmptyDatabase
    /\ NoCall
    /\ before = Database
    /\ loader = "tracker"
    /\ NoOrchestrator
    /\ NoCaller

NextTracker ==
    \/ call_start_load
    \/ call_update_progress
    \/ call_complete_load
    \/ call_log_error

SpecTracker == InitTracker /\ [][NextTracker]_vars

(***************************************************************************)
(* db_utils.py on its own: a single sequential caller of the storage       *)
(* operations.  Every statement runs inside get_cursor, which runs inside  *)
(* get_connection: the pool hands out a connection (getconn) and the       *)
(* search path is set, the statement runs and is committed or rolled back, *)
(* the connection goes back to the pool (putconn).  conn.held counts the   *)
(* connections the process holds, conn.puts how often the connection taken *)
(* last has been returned, conn.exc is where the last scope raised.        *)
(***************************************************************************)
StoreNames == {<<"A">>, <<"a">>, <<"NUL">>}

StoreAttrs == {None, StrV(<<"E", "N">>)}

StoreColumns == {"league_season_id", "team_id", "standing_date", "points"}

StoreRow(team_id, points) ==
    [league_season_id |-> 1, team_id |-> team_id, standing_date |-> None,
     points |-> IntV(points)]

StoreBatches ==
    {<< >>, <<StoreRow(1, 0)>>, <<StoreRow(1, 1)>>, <<StoreRow(1, 0), StoreRow(2, 0)>>}

\* the caller is between two operations
Returned == IF op.name = "none" THEN TRUE ELSE op.pc \in {"returned", "raised"}

\* an operation that has still to run statement stmt
Running(name, stmt, arg, attrs) ==
    [name |-> name, pc |-> "running", stmt |-> stmt, arg |-> arg,
     attrs |-> attrs, result |-> 0]

StoreFrame ==
    UNCHANGED <<matches, team_season_stats, player_season_stats,
                data_load_log, load_id, loader, callVars, loopVars, histVars,
                orchVars>>

call_get_or_create_team ==
    /\ loader = "store"
    /\ Returned
    /\ \E team_name \in StoreNames :
          op' = Running("get_or_create_team", "select", team_name, None)
    /\ UNCHANGED <<teams, players, league_standings, conn, issued>>
    /\ StoreFrame

call_get_or_create_player ==
    /\ loader = "store"
    /\ Returned
    /\ \E player_name \in StoreNames, nationality \in StoreAttrs :
          op' = Running("get_or_create_player", "select", player_name, nationality)
    /\ UNCHANGED <<teams, players, league_standings, conn, issued>>
    /\ StoreFrame

\* upsert and bulk_insert up to get_cursor: an empty batch returns 0 there
BatchCall(name, data) ==
    IF EmptyBatch(data)
    THEN [name |-> name, pc |-> "returned", stmt |-> "none", arg |-> data,
          attrs |-> None, result |-> 0]
    ELSE Running(name, name, data, None)

call_upsert ==
    /\ loader = "store"
    /\ Returned
    /\ \E data \in StoreBatches : op' = BatchCall("upsert", data)
    /\ UNCHANGED <<teams, players, league_standings, conn, issued>>
    /\ StoreFrame

call_bulk_insert ==
    /\ loader = "store"
    /\ Returned
    /\ \E data \in StoreBatches :
          /\ Len(league_standings) + Len(data) <= MaxStored
          /\ op' = BatchCall("bulk_insert", data)
    /\ UNCHANGED <<teams, players, league_standings, conn, issued>>
    /\ StoreFrame

\* get_connection up to its yield: getconn, then SET search_path.  When
\* getconn raises there is no connection to give back; when the SET raises
\* the except clause rolls back and the finally clause is still to run.
get_connection_enter ==
    /\ loader = "store"
    /\ op.name # "none"
    /\ op.pc = "running"
    /\ conn.pc = "closed"
    /\ \E got \in BOOLEAN, set \in BOOLEAN :
          IF ~got
          THEN /\ op' = [op EXCEPT !.pc = "raised"]
               /\ conn' = [conn EXCEPT !.exc = "getconn"]
          ELSE /\ op' = op
               /\ conn' = [pc |-> IF set THEN "open" ELSE "failed",
                           held |-> conn.held + 1,
                           puts |-> 0,
                           exc |-> IF set THEN "none" ELSE "search_path"]
    /\ UNCHANGED <<teams, players, league_standings, issued>>
    /\ StoreFrame

\* what the statement of op does when the database accepts it:
\* [teams, players, table, result, next, raised], next the statement the
\* operation runs after this one ("none": it returns result)
Statement ==
    LET same == [teams |-> teams, players |-> players, table |-> league_standings]
    IN CASE op.name = "get_or_create_team" ->
              LET g == get_or_create_team(teams, op.arg)
              IN IF op.stmt = "select"
                 THEN same @@ [result |-> IF g.teams = teams THEN g.id ELSE 0,
                               next |-> IF g.teams = teams THEN "none" ELSE "insert",
                               raised |-> g.raised]
                 ELSE [teams |-> g.teams, players |-> players,
                       table |-> league_standings, result |-> g.id,
                       next |-> "none", raised |-> g.raised]
         [] op.name = "get_or_create_player" ->
              LET g == get_or_create_player(players, op.arg, op.attrs, None)
              IN IF op.stmt = "select"
                 THEN same @@ [result |-> IF g.players = players THEN g.id ELSE 0,
                               next |-> IF g.players = players /\ ~g.raised
                                        THEN "none" ELSE "insert",
                               raised |-> HasNul(op.arg)]
                 ELSE [teams |-> teams, players |-> g.players,
                       table |-> league_standings, result |-> g.id,
                       next |-> "none", raised |-> g.raised]
         [] op.name = "upsert" ->
              LET u == upsert(league_standings, op.arg, StandingConflictColumns,
                              DefaultUpdateColumns(StoreColumns, StandingConflictColumns),
                              {})
              IN [teams |-> teams, players |-> players, table |-> u.table,
                  result |-> u.rowcount, next |-> "none", raised |-> u.raised]
         [] op.name = "bulk_insert" ->
              LET b == bulk_insert(league_standings, op.arg)
              IN [teams |-> teams, players |-> players, table |-> b.table,
                  result |-> b.rowcount, next |-> "none", raised |-> b.raised]

\* the body of get_cursor: the statement, then commit; when either raises
\* (ok = FALSE: the database refuses) the transaction is rolled back
get_cursor_body ==
    /\ loader = "store"
    /\ conn.pc = "open"
    /\ \E ok \in BOOLEAN :
          LET st == Statement
          IN IF ok /\ ~st.raised
             THEN /\ teams' = st.teams
                  /\ players' = st.players
                  /\ league_standings' = st.table
                  /\ op' = [op EXCEPT !.stmt = st.next, !.result = st.result]
                  /\ conn' = [conn EXCEPT !.pc = "done"]
             ELSE /\ UNCHANGED <<teams, players, league_standings, op>>
                  /\ conn' = [conn EXCEPT !.pc = "failed", !.exc = "body"]
    /\ UNCHANGED issued
    /\ StoreFrame

\* the end of the scope as it would be without the finally clause
get_connection_exit_without_putconn ==
    /\ loader = "store"
    /\ conn.pc \in {"done", "failed"}
    /\ conn' = [conn EXCEPT !.pc = "closed"]
    /\ op' = [op EXCEPT !.pc = IF conn.pc = "failed" THEN "raised"
                               ELSE IF op.stmt = "none" THEN "returned"
                               ELSE "running"]
    /\ UNCHANGED <<teams, players, league_standings, issued>>
    /\ StoreFrame

\* the finally clause of get_connection: putconn; then the operation
\* raises, returns its result or goes on to its next statement
get_connection_exit ==
    /\ loader = "store"
    /\ conn.pc \in {"done", "failed"}
    /\ conn' = [conn EXCEPT !.pc = "closed", !.held = conn.held - 1,
                            !.puts = conn.puts + 1]
    /\ op' = [op EXCEPT !.pc = IF conn.pc = "failed" THEN "raised"
                               ELSE IF op.stmt = "none" THEN "returned"
                               ELSE "running"]
    /\ issued' = IF conn.pc = "done" /\ op.stmt = "none"
                    /\ op.name \in {"get_or_create_team", "get_or_create_player"}
                 THEN issued \cup {[of |-> op.name, name |-> op.arg, id |-> op.result]}
                 ELSE issued
    /\ UNCHANGED <<teams, players, league_standings>>
    /\ StoreFrame

InitStore ==
    /\ EmptyDatabase
    /\ NoCall
    /\ before = Database
    /\ loader = "store"
    /\ NoOrchestrator
    /\ NoCaller

NextStore ==
    \/ call_get_or_create_team
    \/ call_get_or_create_player
    \/ call_upsert
    \/ call_bulk_insert
    \/ get_connection_enter
    \/ get_cursor_body
    \/ get_connection_exit

SpecStore == InitStore /\ [][NextStore]_vars

(***************************************************************************)
(* db_utils.py called by several processes at once: each process calls     *)
(* get_or_create_team or get_or_create_player, whose SELECT and INSERT are *)
(* two calls of execute_query, each a transaction of its own, so that the  *)
(* statements of the processes interleave.  op maps a process to its call, *)
(* issued records every INSERT: its process, the id it got and the rows    *)
(* the table had when the process looked the name up.                      *)
(***************************************************************************)
RaceNames == {<<"A">>, <<"B">>}

\* the teams table has no unique constraint on team_name, nor players on
\* player_name: an INSERT of a name the table holds adds a second row
NamesUnconstrained == TRUE

NoRaceCall == [name |-> "none", pc |-> "idle", arg |-> << >>, seen |-> 0, result |-> 0, calls |-> 0]

\* the table a call works on
RaceTable(name) == IF name = "get_or_create_team" THEN teams ELSE players

RaceFrame ==
    UNCHANGED <<matches, team_season_stats, player_season_stats,
                league_standings, data_load_log, load_id, loader, callVars,
                loopVars, histVars, orchVars, conn>>

\* process c calls get_or_create_team(name) or get_or_create_player(name)
race_call(c) ==
    /\ loader = "race"
    /\ op[c].pc \in {"idle", "returned", "raised"}
    /\ op[c].calls < MaxCalls
    /\ \E of \in {"get_or_create_team", "get_or_create_player"}, name \in RaceNames :
          op' = [op EXCEPT ![c] = [name |-> of, pc |-> "called", arg |-> name,
                                   seen |-> 0, result |-> 0,
                                   calls |-> op[c].calls + 1]]
    /\ UNCHANGED <<teams, players, issued>>
    /\ RaceFrame

\* the first execute_query of the call of process c: the SELECT by name
race_select(c) ==
    /\ loader = "race"
    /\ op[c].pc = "called"
    /\ \E ok \in BOOLEAN :
          LET found ==
                IF op[c].name = "get_or_create_team"
                THEN LET g == get_or_create_team(teams, op[c].arg)
                     IN [hit |-> g.teams = teams, id |-> g.id]
                ELSE LET g == get_or_create_player(players, op[c].arg, None, None)
                     IN [hit |-> g.players = players, id |-> g.id]
          IN op' = [op EXCEPT ![c] =
                       IF ~ok THEN [op[c] EXCEPT !.pc = "raised"]
                       ELSE IF found.hit
                       THEN [op[c] EXCEPT !.pc = "returned", !.result = found.id]
                       ELSE [op[c] EXCEPT !.pc = "missed",
                                          !.seen = Len(RaceTable(op[c].name))]]
    /\ UNCHANGED <<teams, players, issued>>
    /\ RaceFrame

\* the second execute_query of the call of process c: INSERT ... RETURNING
race_insert(c) ==
    /\ loader = "race"
    /\ op[c].pc = "missed"
    /\ NamesUnconstrained
    /\ \E ok \in BOOLEAN :
          IF ~ok
          THEN /\ op' = [op EXCEPT ![c].pc = "raised"]
               /\ UNCHANGED <<teams, players, issued>>
          ELSE LET id == Len(RaceTable(op[c].name)) + 1
               IN /\ op' = [op EXCEPT ![c].pc = "returned", ![c].result = id]
                  /\ IF op[c].name = "get_or_create_team"
                     THEN /\ teams' = Append(teams, [team_name |-> op[c].arg,
                                                     country |-> None])
                          /\ UNCHANGED players
                     ELSE /\ players' = Append(players, [player_name |-> op[c].arg,
                                                         nationality |-> None,
                                                         position |-> None])
                          /\ UNCHANGED teams
                  /\ issued' = issued \cup {[of |-> op[c].name, name |-> op[c].arg,
                                             id |-> id, caller |-> c,
                                             seen |-> op[c].seen]}
    /\ RaceFrame

get_or_create_called == \E c \in DOMAIN op : race_call(c)
get_or_create_select == \E c \in DOMAIN op : race_select(c)
get_or_create_insert == \E c \in DOMAIN op : race_insert(c)

InitRace ==
    /\ EmptyDatabase
    /\ NoCall
    /\ before = Database
    /\ loader = "race"
    /\ NoOrchestrator
    /\ conn = NoConnection
    /\ issued = {}
    /\ \E n \in 1..MaxCallers : op = [c \in 1..n |-> NoRaceCall]

NextRace ==
    \/ get_or_create_called
    \/ get_or_create_select
    \/ get_or_create_insert

SpecRace == InitRace /\ [][NextRace]_vars

(***************************************************************************)
(* One row through a loader's row loop: the loader has opened its Load     *)
(* record and fetched a DataFrame of one row, whose columns and values are *)
(* drawn from the sets below; the teams table is empty or holds team A.    *)
(***************************************************************************)
NormValues == {IntV(1), FloatV(2), NaN, StrV(<<"x">>), ObjV(1)}

\* the rows with at most n of the columns names, besides the columns of id
RowsOver(id, names, n) ==
    UNION { {id @@ r : r \in [cols -> NormValues]} :
              cols \in {c \in SUBSET names : Cardinality(c) <= n} }

EmptyRow == [c \in {} |-> None]

TeamStatInputs ==
    UNION { RowsOver(id, {"W", "Wins", "wins", "Sh", "Notes"}, MaxColumns) :
              id \in {[Squad |-> StrV(<<"A">>)], [Squad |-> NaN], EmptyRow} }

PlayerStatInputs ==
    UNION { RowsOver(id, {"goals", "Gls", "touches", "Touches", "starts"}, MaxColumns) :
              id \in {[player |-> p, team |-> t] :
                          p \in {StrV(<<"X">>), NaN}, t \in {StrV(<<"A">>), NaN}}
                     \cup {[team |-> StrV(<<"A">>)]} }

StandingInputs ==
    UNION { RowsOver(id, {"W", "Wins", "GF", "GA", "GD", "Rk"}, MaxColumns) :
              id \in {[Squad |-> StrV(<<"A">>)], [Squad |-> NaN], EmptyRow} }

MatchInputs ==
    UNION { { h @@ [away_team |-> a, date |-> d, Score |-> sc] :
                a \in {StrV(<<"B">>), NaN},
                d \in {DateV(1), NaN},
                sc \in {NaN, StrV(<<"2", "ndash", "1">>), StrV(<<"2", "-", "1">>)} } :
              h \in {[home_team |-> StrV(<<"A">>)], [home_team |-> NaN],
                     [home_team |-> None], [Home |-> StrV(<<"A">>)], EmptyRow} }

InputsOf(ld) ==
    CASE ld = "matches" -> MatchInputs
      [] ld = "team_stats" -> TeamStatInputs
      [] ld = "player_stats" -> PlayerStatInputs
      [] ld = "standings" -> StandingInputs

\* the stat types a row is normalized for
InputStatTypes(ld) ==
    CASE ld = "team_stats" -> {"standard", "shooting"}
      [] ld = "player_stats" -> {"standard", "possession"}
      [] OTHER -> {""}

InitRow ==
    /\ loader \in Loaders
    /\ teams \in {<< >>, <<[team_name |-> <<"A">>, country |-> None]>>}
    /\ players = << >>
    /\ matches = << >>
    /\ team_season_stats = << >>
    /\ player_season_stats = << >>
    /\ league_standings = << >>
    /\ \E row \in InputsOf(loader), st \in InputStatTypes(loader) :
          /\ df = <<row>>
          /\ args = [league_code |-> "ENG", season |-> <<2020, 2021>>,
                     stat_types |-> (IF st = "" THEN << >> ELSE <<st>>),
                     standing_date |-> (IF loader = "standings" THEN DateV(7) ELSE None)]
          /\ source = [scraper |-> TRUE, tables |-> <<[ok |-> TRUE, df |-> <<row>>]>>]
          /\ data_load_log =
                start_load(<< >>, LoadType(loader, st), TargetTable(loader), 1).log
    /\ load_id = 1
    /\ league_season_id = 1
    /\ pc = "rows"
    /\ k = 1
    /\ idx = 0
    /\ inserted = 0
    /\ updated = 0
    /\ failed = 0
    /\ total_stats = ZeroCounts
    /\ result = NoResult
    /\ phase = "first"
    /\ replay = FALSE
    /\ before = Database
    /\ fetches = 1
    /\ last = NoPass
    /\ caught = << >>
    /\ NoOrchestrator
    /\ NoCaller

NextRow ==
    \/ process_matches_row
    \/ process_team_stats_no_team_column
    \/ process_team_stats_row
    \/ process_player_stats_row
    \/ process_standings_no_team_column
    \/ process_standings_row

SpecRow == InitRow /\ [][NextRow]_vars

(***************************************************************************)
(* Properties of the category loaders (specification Spec).                *)
(***************************************************************************)
\* the rows of tbl that agree with rec on the columns cols
RowsWithKey(tbl, rec, cols) ==
    {i \in 1..Len(tbl) : \A c \in cols : tbl[i][c] = rec[c]}

NoDuplicateKeys(tbl, cols) ==
    \A i, j \in 1..Len(tbl) : i # j => \E c \in cols : tbl[i][c] # tbl[j][c]

\* the second call has ended, and it repeated the first call's arguments on
\* the first call's snapshot
ReplayDone == phase = "again" /\ replay /\ pc \in {"returned", "raised"}

\* the row loop has just processed a row
AfterPass == pc = "rows" /\ idx > 0 /\ last.valid

\* the id the teams table gives a name
TeamIdOf(v) == get_or_create_team(teams, PyStr(v)).id

\* C1. Idempotence: no target table, nor teams or players, ever holds two
\* rows with the same natural key, and when a loader has been run a second
\* time with the same arguments on the same source snapshot, every target
\* table, teams and players have as many rows as after the first run.
C1_Idempotence ==
    /\ NoDuplicateKeys(matches, MatchConflictColumns)
    /\ NoDuplicateKeys(team_season_stats, TeamStatConflictColumns)
    /\ NoDuplicateKeys(player_season_stats, PlayerStatConflictColumns)
    /\ NoDuplicateKeys(league_standings, StandingConflictColumns)
    /\ NoDuplicateKeys(teams, {"team_name"})
    /\ NoDuplicateKeys(players, {"player_name"})
    /\ ReplayDone =>
          /\ Len(matches) = Len(before.matches)
          /\ Len(team_season_stats) = Len(before.team_season_stats)
          /\ Len(player_season_stats) = Len(before.player_season_stats)
          /\ Len(league_standings) = Len(before.league_standings)
          /\ Len(teams) = Len(before.teams)
          /\ Len(players) = Len(before.players)

\* a replay of a two-row load has returned
C1_Witness ==
    /\ ReplayDone
    /\ pc = "returned"
    /\ Len(df) = 2
    /\ Len(teams) = 2
    /\ Len(matches) + Len(team_season_stats) + Len(player_season_stats)
          + Len(league_standings) = 2

\* the record the team-stat loader has just upserted
LastTeamStatRecord ==
    TeamStatRecord(last.row, TeamIdOf(last.row[TeamColumn(df)]),
                   league_season_id, args.stat_types[k])

\* the team-stat loader has just upserted a row whose key an earlier run
\* had stored
TeamStatRerun ==
    /\ loader = "team_stats"
    /\ AfterPass
    /\ last.counter # "failed"
    /\ phase = "again"
    /\ RowsWithKey(before.team_season_stats, LastTeamStatRecord,
                   TeamStatConflictColumns) # {}

\* C2. Last run wins: when a team-stat run upserts a row whose (team_id,
\* league_season_id, stat_type) key an earlier run had stored, the table
\* holds exactly one row with that key and every other column of it has
\* the value of the later run, nulls included.
C2_LastRunWins ==
    TeamStatRerun =>
        LET hits == RowsWithKey(team_season_stats, LastTeamStatRecord,
                                TeamStatConflictColumns)
        IN /\ Cardinality(hits) = 1
           /\ \A i \in hits : \A c \in TeamStatColumns \ TeamStatConflictColumns :
                 team_season_stats[i][c] = LastTeamStatRecord[c]

\* a rerun has put a null where the earlier run had stored a value
C2_Witness ==
    /\ TeamStatRerun
    /\ \E i \in RowsWithKey(before.team_season_stats, LastTeamStatRecord,
                            TeamStatConflictColumns) :
          \E c \in TeamStatColumns \ TeamStatConflictColumns :
             /\ before.team_season_stats[i][c] # None
             /\ LastTeamStatRecord[c] = None

\* the natural key of the match row the loop has just processed
LastMatchKey ==
    [league_season_id |-> league_season_id,
     home_team_id |-> TeamIdOf(RowGet(last.row, "home_team", "Home")),
     away_team_id |-> TeamIdOf(RowGet(last.row, "away_team", "Away")),
     match_date |-> ToDatetime(RowGet(last.row, "date", "Date"))]

LastScores ==
    ParseScores(RowGet(last.row, "home_score", "Score"),
                RowGet(last.row, "away_score", "Score"))

\* the match loader has just processed a row with a parseable score whose
\* match was stored as scheduled
ScheduledNowPlayed ==
    /\ loader = "matches"
    /\ AfterPass
    /\ Truthy(RowGet(last.row, "home_team", "Home"))
    /\ Truthy(RowGet(last.row, "away_team", "Away"))
    /\ NotNa(RowGet(last.row, "date", "Date"))
    /\ ~LastScores.raised
    /\ LastScores.home # None
    /\ \E i \in RowsWithKey(last.table, LastMatchKey, MatchConflictColumns) :
          last.table[i].match_status = "scheduled"

\* C3. Scheduled to completed in place: when a match stored as scheduled is
\* ingested again with a parseable score, the matches table still has
\* exactly one row for its natural key, as many rows as before, and that
\* row is completed with the newly parsed scores.
C3_ScheduledToCompleted ==
    ScheduledNowPlayed =>
        LET hits == RowsWithKey(matches, LastMatchKey, MatchConflictColumns)
        IN /\ Cardinality(hits) = 1
           /\ Len(matches) = Len(last.table)
           /\ \A i \in hits :
                 /\ matches[i].match_status = "completed"
                 /\ matches[i].home_score = LastScores.home
                 /\ matches[i].away_score = LastScores.away

\* a later run has completed a match that the first run stored as
\* scheduled
C3_Witness ==
    /\ ScheduledNowPlayed
    /\ phase = "again"
    /\ \E i \in RowsWithKey(before.matches, LastMatchKey, MatchConflictColumns) :
          /\ before.matches[i].match_status = "scheduled"
          /\ before.matches[i].home_score = None

\* the match loader has just processed a row that has both team names and
\* a date
MatchRowSeen ==
    /\ loader = "matches"
    /\ AfterPass
    /\ Truthy(RowGet(last.row, "home_team", "Home"))
    /\ Truthy(RowGet(last.row, "away_team", "Away"))
    /\ NotNa(RowGet(last.row, "date", "Date"))

\* a number of the source
IsNumber(v) == v.t \in {"int", "float"}

\* the row's score parses: a composite 'H-A' string with an en dash between
\* two numerals, or numbers in the separate home and away columns
ScoreParses(row) ==
    \/ /\ Has(row, "Score")
       /\ row["Score"].t = "str"
       /\ LET parts == Split(row["Score"].s, "ndash")
          IN Len(parts) = 2 /\ AllDigits(parts[1]) /\ AllDigits(parts[2])
    \/ /\ Has(row, "home_score") /\ IsNumber(row["home_score"])
       /\ Has(row, "away_score") /\ IsNumber(row["away_score"])

\* C4. Score-to-status mapping: every match row that has both team names
\* and a date is upserted, not dropped; with a score that parses its stored
\* row is completed, and with a missing or unparseable score its stored row
\* is scheduled with null scores.
C4_ScoreToStatus ==
    MatchRowSeen =>
        LET hits == RowsWithKey(matches, LastMatchKey, MatchConflictColumns)
        IN /\ last.counter # "failed"
           /\ Cardinality(hits) = 1
           /\ \A i \in hits :
                 IF ScoreParses(last.row)
                 THEN matches[i].match_status = "completed"
                 ELSE /\ matches[i].match_status = "scheduled"
                      /\ matches[i].home_score = None
                      /\ matches[i].away_score = None

\* a row with both team names, a date and the score '2-1' written with a
\* hyphen has raised and was counted as failed; no row was stored for it
C4_Witness ==
    /\ MatchRowSeen
    /\ RowGet(last.row, "home_score", "Score") = ScoreHyphen
    /\ last.raised
    /\ last.counter = "failed"
    /\ matches = last.table

\* the row loop is at work on a DataFrame whose rows it processes one by one
RowLoop ==
    /\ pc = "rows"
    /\ loader \in {"standings", "team_stats"} => TeamColumn(df) # ""

\* the rows of this loop that raised, and that were rejected, so far
RaisedRows == IF idx = 0 THEN 0 ELSE last.raises
RejectedRows == IF idx = 0 THEN 0 ELSE last.rejects

\* C5. Row-level failure isolation: in each loader's row loop every
\* processed row is counted in exactly one of inserted, updated and failed,
\* so the three sum to the number of rows of the batch at the end; failed
\* is the number of rows that raised or were rejected, so a batch of N rows
\* of which exactly one raised and none was rejected ends with failed = 1
\* and inserted + updated = N - 1; the counts a loader returns are these.
C5_FailureIsolation ==
    /\ pc = "rows" => inserted + updated + failed = idx
    /\ RowLoop => failed = RaisedRows + RejectedRows
    /\ (RowLoop /\ idx = Len(df) /\ RaisedRows = 1 /\ RejectedRows = 0) =>
          failed = 1 /\ inserted + updated = Len(df) - 1
    /\ (pc = "returned" /\ loader \in {"matches", "standings"}) =>
          /\ result.stats = Counts(inserted, updated, failed)
          /\ inserted + updated + failed = Len(df)

\* a batch of two rows, one of which raised, has been processed
C5_Witness ==
    /\ RowLoop
    /\ idx = Len(df)
    /\ Len(df) = 2
    /\ RaisedRows = 1
    /\ RejectedRows = 0
    /\ failed = 1
    /\ inserted + updated = 1

\* a loader call has returned or raised
CallEnded == pc \in {"returned", "raised"}

\* C6. Provenance lifecycle: complete_load acts at most once on a Load
\* record, a record has a terminal status (completed or failed) and an end
\* time exactly when complete_load has acted on it, the only running
\* record is the one the tracker holds while a loader call is under way,
\* and no record is running once the call has returned or raised.
C6_ProvenanceLifecycle ==
    /\ \A i \in 1..Len(data_load_log) :
          LET r == data_load_log[i]
          IN /\ r.completions <= 1
             /\ r.completions = 1 <=> r.status \in {"completed", "failed"}
             /\ r.completions = 0 <=> r.status = "running"
             /\ r.load_end <=> r.completions = 1
             /\ r.status = "running" => i = load_id /\ ~CallEnded
    /\ CallEnded => load_id = 0

\* a call has ended with one Load record completed and another one failed
\* after update_progress raised
C6_Witness ==
    /\ CallEnded
    /\ \E i, j \in 1..Len(data_load_log) :
          /\ data_load_log[i].status = "completed"
          /\ data_load_log[i].records_processed = 2
          /\ data_load_log[j].status = "failed"
          /\ data_load_log[j].error_message.error = "DatabaseError"

\* C7. Missing-unit short-circuit: a loader called for a (league, season)
\* that get_league_season_id does not resolve returns zero counts without
\* raising, asks the source nothing, holds no Load record, and leaves the
\* whole database, data_load_log included, as it was when it was called.
C7_MissingUnit ==
    (phase # "none" /\ get_league_season_id(args.league_code, args.season) = 0) =>
        /\ pc = "returned"
        /\ result = Returns(ZeroCounts)
        /\ fetches = 0
        /\ load_id = 0
        /\ Database = before

\* a loader that had loaded rows has been called for an unknown unit
C7_Witness ==
    /\ phase = "again"
    /\ get_league_season_id(args.league_code, args.season) = 0
    /\ pc = "returned"
    /\ Len(before.data_load_log) > 0
    /\ Len(before.teams) > 0

\* the Load record that was open when e was caught is failed, with e's
\* message in its error message
FailedWithMessage(e) ==
    /\ e.load_id \in 1..Len(data_load_log)
    /\ data_load_log[e.load_id].status = "failed"
    /\ data_load_log[e.load_id].error_message.error = e.error
    /\ data_load_log[e.load_id].error_message.context # << >>

UnitAt(n) ==
    <<((n - 1) \div Len(seasons)) + 1, ((n - 1) % Len(seasons)) + 1>>

\* the units of the cross-product
UnitCount == Len(leagues) * Len(seasons)

\* no exception of a loader has escaped the orchestrator; each exception
\* caught ended one unit only; a run that has not reached its summary can
\* take a step; at the summary every unit of leagues x seasons has been
\* begun, once and in order
UnitsIsolated ==
    /\ pc # "escaped"
    /\ unit_errors <= Len(units)
    /\ pc = "loop" => ENABLED NextOrch
    /\ pc = "done" =>
          /\ Len(units) = UnitCount
          /\ \A n \in 1..UnitCount : units[n] = UnitAt(n)

\* C9. Unit-level failure isolation: an exception raised by a loader in a
\* unit is caught at that unit and never escapes the orchestrator, every
\* unit of leagues x seasons is begun whatever was raised in the units
\* before it, and every run that has started reaches its final summary.
C9_UnitIsolation ==
    /\ []UnitsIsolated
    /\ (pc = "loop") ~> (pc = "done")

\* the run has reached its summary after four units; an exception ended an
\* earlier unit and the last unit ran to its end
C9_Witness ==
    /\ pc = "done"
    /\ Len(units) = 4
    /\ unit_errors >= 1
    /\ calls # << >>
    /\ calls[Len(calls)].outcome = "returned"

\* the order the specification gives the categories
CategoryOrder == <<"matches", "team_stats", "player_stats", "standings">>

\* the categories of CategoryOrder that are not skipped, in that order
NotSkipped == SelectSeq(CategoryOrder, LAMBDA c : c \notin skip)

\* C10. Processing order: the loader calls of a unit are the categories
\* that are not skipped, in the order Matches, Team Stats, Player Stats,
\* Standings, with none left out before the last call, each for the unit's
\* league and season, and each but the last has returned; the units are
\* begun league by league in the order of the leagues argument, the
\* seasons of a league in the order of the season list, which ascends by
\* start year.
C10_ProcessingOrder ==
    /\ Len(calls) <= Len(NotSkipped)
    /\ \A n \in 1..Len(calls) :
          /\ calls[n].category = NotSkipped[n]
          /\ units # << >>
          /\ calls[n].league_code = leagues[units[Len(units)][1]]
          /\ calls[n].season = seasons[units[Len(units)][2]]
          /\ n < Len(calls) => calls[n].outcome = "returned"
    /\ Len(units) <= UnitCount
    /\ \A n \in 1..Len(units) : units[n] = UnitAt(n)
    /\ \A j \in 1..(Len(seasons) - 1) : seasons[j + 1][1] = seasons[j][1] + 1

\* the last of four units has called all four loaders
C10_Witness ==
    /\ Len(units) = 4
    /\ Len(calls) = 4
    /\ skip = {}
    /\ leagues = <<"GER", "ITA">>


(***************************************************************************)
(* Properties of the DataLoadLogger (specification SpecTracker).           *)
(***************************************************************************)
\* the Load records that have a terminal status
ClosedLoads == {i \in 1..Len(data_load_log) : data_load_log[i].status # "running"}

\* a step leaves every closed Load record as it is
ClosedLoadsKept == \A i \in ClosedLoads : data_load_log'[i] = data_load_log[i]

\* the tracker refers to no closed Load record
NoClosedLoadOpen == load_id = 0 \/ load_id \notin ClosedLoads

\* C11. Terminal Load records are closed for good: a Load record with a
\* terminal status is never the one the tracker's load_id refers to (the
\* load_id is None once complete_load has closed the record), and no later
\* call of start_load, update_progress, complete_load or log_error changes
\* its status, end time, counters or error message.
C11_ClosedForGood == [](NoClosedLoadOpen) /\ [][ClosedLoadsKept]_vars

\* a call of update_progress, complete_load or log_error made after the
\* tracker's Load record was closed
C11_Witness ==
    /\ op.name \in {"update_progress", "complete_load", "log_error"}
    /\ op.load_id = 0
    /\ ClosedLoads # {}


(***************************************************************************)
(* Properties of the normalization of one row (specification SpecRow).     *)
(***************************************************************************)
\* the canonical fields of the standings: get_val's alias lists
StandingFields ==
    <<[at |-> "stats", key |-> "matches_played", aliases |-> <<"MP", "Matches", "Pld">>, conv |-> "int"],
      [at |-> "stats", key |-> "wins", aliases |-> <<"W", "Wins">>, conv |-> "int"],
      [at |-> "stats", key |-> "draws", aliases |-> <<"D", "Draws">>, conv |-> "int"],
      [at |-> "stats", key |-> "losses", aliases |-> <<"L", "Losses">>, conv |-> "int"],
      [at |-> "stats", key |-> "goals_for", aliases |-> <<"GF", "Goals For", "F">>, conv |-> "int"],
      [at |-> "stats", key |-> "goals_against", aliases |-> <<"GA", "Goals Against", "A">>, conv |-> "int"],
      [at |-> "stats", key |-> "goal_difference", aliases |-> <<"GD", "Goal Difference">>, conv |-> "int"],
      [at |-> "stats", key |-> "points", aliases |-> <<"Pts", "Points">>, conv |-> "int"],
      [at |-> "stats", key |-> "home_wins", aliases |-> <<"Home W">>, conv |-> "int"],
      [at |-> "stats", key |-> "home_draws", aliases |-> <<"Home D">>, conv |-> "int"],
      [at |-> "stats", key |-> "home_losses", aliases |-> <<"Home L">>, conv |-> "int"],
      [at |-> "stats", key |-> "away_wins", aliases |-> <<"Away W">>, conv |-> "int"],
      [at |-> "stats", key |-> "away_draws", aliases |-> <<"Away D">>, conv |-> "int"],
      [at |-> "stats", key |-> "away_losses", aliases |-> <<"Away L">>, conv |-> "int"]>>

\* the canonical fields a loader normalizes a row of stat type st into
NormFields(ld, st) ==
    CASE ld = "team_stats" -> TeamStatFields(st)
      [] ld = "player_stats" -> PlayerStatFields(st)
      [] ld = "standings" -> StandingFields
      [] OTHER -> << >>

\* the stat type of the row loop
StatType == IF args.stat_types = << >> THEN "" ELSE args.stat_types[k]

NoRecord == [none |-> TRUE]

\* the table the loader upserts into
TableOf(ld) ==
    CASE ld = "matches" -> matches
      [] ld = "team_stats" -> team_season_stats
      [] ld = "player_stats" -> player_season_stats
      [] ld = "standings" -> league_standings

\* the record the last pass of the row loop has stored, NoRecord when it
\* stored none (the table was empty before the pass)
StoredRecord ==
    IF last.valid /\ last.table = << >> /\ Len(TableOf(loader)) = 1
    THEN TableOf(loader)[1] ELSE NoRecord

\* the record the loader's row pass would store for row in the place of
\* the last row
UpsertedFor(row) ==
    LET out ==
          CASE loader = "team_stats" ->
                  ProcessTeamStatRow(row, TeamColumn(<<row>>), league_season_id,
                                     StatType, last.teams, << >>)
            [] loader = "player_stats" ->
                  ProcessPlayerStatRow(row, league_season_id, StatType,
                                       last.players, last.teams, << >>)
            [] loader = "standings" ->
                  ProcessStandingRow(row, last.idx, TeamColumn(<<row>>),
                                     league_season_id, args.standing_date,
                                     last.teams, << >>)
            [] OTHER ->
                  ProcessMatchRow(row, league_season_id, last.teams, << >>)
    IN IF Len(out.table) = 1 THEN out.table[1] ELSE NoRecord

\* the value of canonical field f in a stored record
FieldValue(rec, f) ==
    IF f.at = "stats" THEN rec[f.key] ELSE rec.additional_stats[f.key]

\* row holds a value under the i-th alias and has no column of another alias
OnlyUnder(row, aliases, i) ==
    /\ Has(row, aliases[i])
    /\ NotNa(row[aliases[i]])
    /\ \A j \in 1..Len(aliases) : j # i => aliases[j] \notin DOMAIN row

\* row with column a renamed to b
Rename(row, a, b) ==
    [c \in (DOMAIN row \ {a}) \cup {b} |-> IF c = b THEN row[a] ELSE row[c]]

\* the passes of the row loop that normalize a row with an alias table
Normalized ==
    /\ last.valid
    /\ loader \in {"team_stats", "player_stats", "standings"}
    /\ last.table = << >>

\* alias independence of the fields that satisfy Which
AliasIndependent(Which(_)) ==
    Normalized =>
        /\ StoredRecord = UpsertedFor(last.row)
        /\ \A i \in 1..Len(NormFields(loader, StatType)) :
              LET f == NormFields(loader, StatType)[i]
              IN \A a, b \in 1..Len(f.aliases) :
                    (Which(f) /\ a # b /\ OnlyUnder(last.row, f.aliases, a)) =>
                        LET other == UpsertedFor(Rename(last.row, f.aliases[a], f.aliases[b]))
                        IN /\ (other = NoRecord) <=> (StoredRecord = NoRecord)
                           /\ StoredRecord # NoRecord =>
                                 FieldValue(other, f) = FieldValue(StoredRecord, f)

AnyField(f) == TRUE

\* C12. Alias independence: for every canonical field of the team-stat,
\* player-stat and standings normalization and any two of its aliases a and
\* b, the row that holds value v only under a and the same row with the
\* column named b instead give the same canonical value for the field.
C12_AliasIndependence == AliasIndependent(AnyField)

\* a player row of stat type 'possession' that holds a float only under
\* 'touches', stored
C12_Witness ==
    /\ Normalized
    /\ loader = "player_stats"
    /\ StatType = "possession"
    /\ OnlyUnder(last.row, <<"touches", "Touches">>, 1)
    /\ last.row["touches"] = FloatV(2)
    /\ StoredRecord # NoRecord


\* the names of the aliases of the canonical fields of a field table
AliasNames(fields) ==
    UNION { {fields[i].aliases[j] : j \in 1..Len(fields[i].aliases)} :
              i \in 1..Len(fields) }

\* the identity columns of a loader's rows
IdentityColumns(ld) ==
    IF ld = "team_stats" THEN TeamIdentityColumns ELSE PlayerExcludeColumns

\* the passes of the two stat loaders' row loops on a row that has its
\* identity fields
StatRowNormalized ==
    /\ last.valid
    /\ loader \in {"team_stats", "player_stats"}
    /\ last.table = << >>
    /\ last.raised \/ last.counter # "failed"

\* the columns of the last row that are to be kept in the overflow map
OverflowColumns ==
    {col \in DOMAIN last.row :
        /\ NotNa(last.row[col])
        /\ col \notin IdentityColumns(loader)
        /\ col \notin AliasNames(NormFields(loader, StatType))}

\* col is in the overflow map of the stored record, verbatim or stringified
InOverflow(col) ==
    /\ StoredRecord # NoRecord
    /\ col \in DOMAIN StoredRecord.additional_stats
    /\ StoredRecord.additional_stats[col]
          \in {last.row[col], StrV(PyStr(last.row[col]))}

\* C13. Overflow preservation: in team-stat and player-stat normalization
\* every column of the row with a non-missing value that is no identity
\* column and no alias of a canonical field of the stat type is in the
\* stored record's additional_stats under its own name, with its value
\* verbatim or stringified.
C13_OverflowPreserved ==
    StatRowNormalized => \A col \in OverflowColumns : InOverflow(col)

\* a team row of stat type 'standard' with a value in a column named 'wins'
\* (the canonical key, not one of its aliases 'W' and 'Wins'), stored
C13_Witness ==
    /\ StatRowNormalized
    /\ loader = "team_stats"
    /\ StatType = "standard"
    /\ "wins" \in OverflowColumns
    /\ StoredRecord # NoRecord


(***************************************************************************)
(* Rows without an entity name.                                            *)
(***************************************************************************)
\* none of the columns names holds a value in row: each is absent, null or NaN
Missing(row, names) == \A c \in names : Has(row, c) => IsNa(row[c])

\* the entity name of a loader's row is missing
EntityNameMissing(ld, row) ==
    CASE ld = "matches" ->
             \/ Missing(row, {"home_team", "Home"})
             \/ Missing(row, {"away_team", "Away"})
      [] ld = "player_stats" ->
             \/ Missing(row, {"player", "Player"})
             \/ Missing(row, {"team", "Squad"})
      [] OTHER -> Missing(row, TeamIdentityColumns)

\* a step of a row loop that takes rows, all of them counted failed, and
\* resolves, creates and stores nothing
RowsSkipped ==
    /\ idx' > idx
    /\ failed' = failed + (idx' - idx)
    /\ UNCHANGED <<teams, players, matches, team_season_stats,
                   player_season_stats, league_standings, inserted, updated>>

\* the next row of the loop has no entity name
NextRowNameless ==
    /\ pc = "rows"
    /\ idx < Len(df)
    /\ EntityNameMissing(loader, df[idx + 1])

\* C14. Identity-field rejection: in every loader, a step of the row loop on
\* a row whose entity name is missing (absent column, null or NaN) counts the
\* row as failed and leaves the teams, the players and every table as they
\* were: no team or player is resolved or created and nothing is upserted.
C14_NamelessRowRejected == [][NextRowNameless => RowsSkipped]_vars

\* a match row whose home team is NaN has been processed and a match stored
C14_Witness ==
    /\ last.valid
    /\ loader = "matches"
    /\ Has(last.row, "home_team")
    /\ last.row["home_team"] = NaN
    /\ last.table = << >>
    /\ matches # << >>


(***************************************************************************)
(* The first-class fields of the stat types.                               *)
(***************************************************************************)
\* the stat types of a stat loader
StatTypesOf(ld) ==
    IF ld = "team_stats"
    THEN {TeamStatTypes[i] : i \in 1..Len(TeamStatTypes)}
    ELSE {PlayerStatTypes[i] : i \in 1..Len(PlayerStatTypes)}

\* the first-class fields that only stat types other than st define
OtherTypesFields(ld, st) ==
    UNION {KeysAt(NormFields(ld, other), "stats") : other \in StatTypesOf(ld) \ {st}}
        \ KeysAt(NormFields(ld, st), "stats")

\* the columns of the last row that are aliases of a first-class field that
\* only other stat types define, with a value
OtherTypesColumns ==
    {col \in DOMAIN last.row :
        /\ NotNa(last.row[col])
        /\ \E other \in StatTypesOf(loader) \ {StatType} :
              \E i \in 1..Len(NormFields(loader, other)) :
                 LET f == NormFields(loader, other)[i]
                 IN /\ f.at = "stats"
                    /\ f.key \in OtherTypesFields(loader, StatType)
                    /\ col \in {f.aliases[j] : j \in 1..Len(f.aliases)}}

\* C18. Category disjointness: the record a team-stat or player-stat row
\* pass stores for stat type X has null in every first-class field that only
\* other stat types define, whatever columns the row has.
C18_CategoryDisjoint ==
    (StatRowNormalized /\ StoredRecord # NoRecord) =>
        \A key \in OtherTypesFields(loader, StatType) : StoredRecord[key] = None

\* a stored record of a row that has a value under an alias of a first-class
\* field of another stat type
C18_Witness ==
    /\ StatRowNormalized
    /\ StoredRecord # NoRecord
    /\ OtherTypesColumns # {}


(***************************************************************************)
(* The choice among the aliases of a field.                                *)
(***************************************************************************)
\* the positions of the aliases under which row holds a non-missing value
Holding(row, aliases) ==
    {i \in 1..Len(aliases) : Has(row, aliases[i]) /\ NotNa(row[aliases[i]])}

\* the least position of a non-empty set of positions
Least(S) == CHOOSE i \in S : \A j \in S : i <= j

\* row without the columns of the aliases other than the i-th
WithoutOthers(row, aliases, i) ==
    [c \in DOMAIN row \ ({aliases[j] : j \in 1..Len(aliases)} \ {aliases[i]}) |-> row[c]]

\* C19. Alias priority: in team-stat, player-stat and standings
\* normalization the canonical value of a field is the one of the first
\* alias, in the declared order, under which the row holds a non-missing
\* value: the stored record has for the field the value that the row gives
\* with every other alias column of the field taken away.
C19_AliasPriority ==
    (Normalized /\ StoredRecord # NoRecord) =>
        \A n \in 1..Len(NormFields(loader, StatType)) :
           LET f == NormFields(loader, StatType)[n]
               held == Holding(last.row, f.aliases)
           IN held # {} =>
                LET only == UpsertedFor(WithoutOthers(last.row, f.aliases, Least(held)))
                IN /\ only # NoRecord
                   /\ FieldValue(only, f) = FieldValue(StoredRecord, f)

\* a stored team 'standard' record of a row with different values under
\* both aliases of wins
C19_Witness ==
    /\ Normalized
    /\ StoredRecord # NoRecord
    /\ loader = "team_stats"
    /\ StatType = "standard"
    /\ Holding(last.row, <<"W", "Wins">>) = {1, 2}
    /\ PyInt(last.row["W"]) # PyInt(last.row["Wins"])
    /\ StoredRecord.wins = PyInt(last.row["W"])


(***************************************************************************)
(* Values that cannot be coerced.                                          *)
(***************************************************************************)
\* convert_func(val) of get_val
Coerce(val, conv) == IF conv = "int" THEN PyInt(val) ELSE PyFloat(val)

\* the value chosen for field f of the last row cannot be coerced
Uncoercible(f) ==
    LET held == Holding(last.row, f.aliases)
    IN /\ held # {}
       /\ Coerce(last.row[f.aliases[Least(held)]], f.conv) = Raised

\* row without the column of the value chosen for f
WithoutChosen(row, f) ==
    [c \in DOMAIN row \ {f.aliases[Least(Holding(row, f.aliases))]} |-> row[c]]

\* null in a stored record: None in a column, null in the JSON map
IsNull(v) == v = None \/ v.t = "null"

\* the fields of the last row whose value cannot be coerced while the rest
\* of the row can be stored
FailedCoercions ==
    {n \in 1..Len(NormFields(loader, StatType)) :
        LET f == NormFields(loader, StatType)[n]
        IN /\ Uncoercible(f)
           /\ UpsertedFor(WithoutChosen(last.row, f)) # NoRecord}

\* C20. Coercion failure is local: when the value chosen for a canonical
\* field of a team-stat or player-stat row cannot be coerced to the field's
\* type, the row is upserted and not counted failed, the field is null in
\* the record, and every other field has the value it has without that
\* column.
C20_CoercionLocal ==
    StatRowNormalized =>
        \A n \in FailedCoercions :
           LET fields == NormFields(loader, StatType)
               rest == UpsertedFor(WithoutChosen(last.row, fields[n]))
           IN /\ StoredRecord # NoRecord
              /\ last.counter # "failed"
              /\ StoredRecord # NoRecord =>
                    /\ IsNull(FieldValue(StoredRecord, fields[n]))
                    /\ \A m \in 1..Len(fields) :
                          fields[m].key # fields[n].key =>
                             FieldValue(StoredRecord, fields[m])
                                = FieldValue(rest, fields[m])

\* a team 'standard' row whose value under 'W' is an object int() cannot
\* convert has been processed and has raised
C20_Witness ==
    /\ StatRowNormalized
    /\ loader = "team_stats"
    /\ FailedCoercions # {}
    /\ Has(last.row, "W")
    /\ last.row["W"] = ObjV(1)
    /\ last.raised


(***************************************************************************)
(* Properties of the storage operations (specification SpecStore).         *)
(***************************************************************************)
\* no two rows of teams, and no two rows of players, have the same name
UniqueNames ==
    /\ \A i, j \in 1..Len(teams) :
          teams[i].team_name = teams[j].team_name => i = j
    /\ \A i, j \in 1..Len(players) :
          players[i].player_name = players[j].player_name => i = j

\* the name of the row with id `id` in the table get_or_create_* `of` fills
NameOfId(of, id) ==
    IF of = "get_or_create_team" THEN teams[id].team_name
    ELSE players[id].player_name

\* every id returned is the id of the row with the name asked for; the same
\* name has always got the same id and two different names different ids
IssuedIds ==
    /\ \A p \in issued :
          /\ p.id \in 1..(IF p.of = "get_or_create_team"
                          THEN Len(teams) ELSE Len(players))
          /\ NameOfId(p.of, p.id) = p.name
    /\ \A p, q \in issued :
          p.of = q.of => ((p.name = q.name) <=> (p.id = q.id))

\* a call raises only when a scope of get_connection has raised
RaisedByStorage ==
    (op.name \in {"get_or_create_team", "get_or_create_player"}
        /\ op.pc = "raised")
    => conn.exc \in {"getconn", "search_path", "body"}

\* a step adds at most one row to teams and players together, and only a
\* row with the name asked for, which no row had
OneRowForUnknown ==
    /\ teams' # teams =>
          /\ op.name = "get_or_create_team"
          /\ \A i \in 1..Len(teams) : teams[i].team_name # op.arg
          /\ teams' = Append(teams, [team_name |-> op.arg, country |-> None])
          /\ players' = players
    /\ players' # players =>
          /\ op.name = "get_or_create_player"
          /\ \A i \in 1..Len(players) : players[i].player_name # op.arg
          /\ Len(players') = Len(players) + 1
          /\ SubSeq(players', 1, Len(players)) = players
          /\ players'[Len(players')].player_name = op.arg

\* C15. Get-or-create identity: get_or_create_team and get_or_create_player
\* return the id of the row whose name equals the name asked for, inserting
\* exactly one row when there is none and raising only when storage does;
\* for a single sequential caller each name has one row, the same name gets
\* the same id and different spellings get different ids.
C15_GetOrCreateIdentity ==
    /\ [](UniqueNames /\ IssuedIds /\ RaisedByStorage)
    /\ [][OneRowForUnknown]_vars

\* get_or_create_team has returned the id of the first of two rows, to a
\* caller that has by now got ids for both spellings 'A' and 'a'
C15_Witness ==
    /\ op.name = "get_or_create_team"
    /\ op.pc = "returned"
    /\ Len(teams) = 2
    /\ op.result = 1
    /\ \E p, q \in issued :
          /\ p.of = "get_or_create_team" /\ q.of = "get_or_create_team"
          /\ p.name = <<"A">> /\ q.name = <<"a">>
          /\ p.id # q.id

\* the connection: none held outside a scope, one inside, the one taken
\* last returned once after the scope and not before
ScopedConnection ==
    /\ conn.held \in {0, 1}
    /\ conn.puts \in {0, 1}
    /\ conn.pc = "closed" => conn.held = 0
    /\ conn.pc # "closed" => conn.held = 1 /\ conn.puts = 0
    /\ Returned => conn.pc = "closed"

\* a step that ends a scope returns the connection once
ReturnedOnce ==
    (conn.pc # "closed" /\ conn'.pc = "closed") =>
        /\ conn'.held = conn.held - 1
        /\ conn'.puts = 1

\* C16. Scoped connection use: a connection taken from the pool is
\* returned exactly once, whether the cursor body succeeds, raises or the
\* search_path setup fails; the process holds at most one connection and
\* none between storage operations.
C16_ScopedConnection == [](ScopedConnection) /\ [][ReturnedOnce]_vars

\* an operation has raised because SET search_path failed, and its
\* connection is back in the pool
C16_Witness ==
    /\ op.name # "none"
    /\ op.pc = "raised"
    /\ conn.exc = "search_path"
    /\ conn.pc = "closed"
    /\ conn.held = 0
    /\ conn.puts = 1

\* the step is a call of upsert or bulk_insert with an empty batch
EmptyBatchCall ==
    /\ Returned
    /\ op' # op
    /\ op'.name \in {"upsert", "bulk_insert"}
    /\ op'.arg = << >>

\* C17. Empty batch: a call of upsert or bulk_insert with an empty batch
\* returns 0 at once: it takes no connection, runs no statement and leaves
\* every table as it was.
C17_EmptyBatchNoOp ==
    [][EmptyBatchCall =>
          /\ op'.pc = "returned"
          /\ op'.result = 0
          /\ UNCHANGED <<dbVars, conn>>]_vars

\* upsert has returned 0 for an empty batch while the table holds a row
C17_Witness ==
    /\ op.name = "upsert"
    /\ op.arg = << >>
    /\ op.pc = "returned"
    /\ op.result = 0
    /\ league_standings # << >>


(***************************************************************************)
(* Properties of the match loader's rows (specification Spec).             *)
(***************************************************************************)
\* the external_match_id of a match row
ExternalId(row) ==
    <<league_season_id, RowGet(row, "home_team", "Home"),
      RowGet(row, "away_team", "Away"), ToDatetime(RowGet(row, "date", "Date"))>>

\* the positions in tbl of the matches of row
MatchesOf(tbl, row) ==
    {i \in 1..Len(tbl) : tbl[i].external_match_id = ExternalId(row)}

\* a step of the match loader's row loop that has upserted its row
MatchUpserted ==
    /\ loader = "matches"
    /\ pc = "rows"
    /\ idx' = idx + 1
    /\ last'.valid
    /\ last'.counter # "failed"

\* the step counts one row, as `name`
CountsAs(name) ==
    /\ inserted' = inserted + (IF name = "inserted" THEN 1 ELSE 0)
    /\ updated' = updated + (IF name = "updated" THEN 1 ELSE 0)
    /\ failed' = failed

\* C21. Match insert/update inference: every step of the match loader's row
\* loop that upserts its row increments exactly one counter, 'updated' when
\* the stored match is completed and 'inserted' when it is scheduled,
\* whether or not the matches table held the match before.
C21_CounterFromStatus ==
    [][MatchUpserted =>
          \E i \in MatchesOf(matches', last'.row) :
             /\ matches'[i].match_status \in {"completed", "scheduled"}
             /\ CountsAs(IF matches'[i].match_status = "completed"
                         THEN "updated" ELSE "inserted")]_vars

\* a scheduled match that the table already held has been upserted again
\* and counted as inserted
C21_Witness ==
    /\ loader = "matches"
    /\ last.valid
    /\ last.counter = "inserted"
    /\ MatchesOf(last.table, last.row) # {}


(***************************************************************************)
(* Properties of update_progress (specification SpecTracker).              *)
(***************************************************************************)
\* the four counters of a Load record
ProgressOf(rec) ==
    Progress(rec.records_processed, rec.records_inserted, rec.records_updated,
             rec.records_failed)

\* a Load record but for its four counters
RestOf(rec) ==
    [f \in DOMAIN rec \ {"records_processed", "records_inserted",
                         "records_updated", "records_failed"} |-> rec[f]]

\* the step is a call of update_progress
UpdateProgressCalled ==
    /\ loader = "tracker"
    /\ op'.name = "update_progress"
    /\ <<op, data_load_log>>' # <<op, data_load_log>>

\* C22. Progress counters are overwritten: a call of update_progress on an
\* open Load record whose statement runs leaves in the record's processed,
\* inserted, updated and failed counters the arguments of this call (0 for
\* an argument left out), whatever they were, and changes nothing else of
\* the record, its status included, and no other record; with no open load
\* the call changes nothing.
C22_ProgressOverwritten ==
    [][UpdateProgressCalled =>
          /\ load_id' = load_id
          /\ Len(data_load_log') = Len(data_load_log)
          /\ \A i \in 1..Len(data_load_log) :
                /\ RestOf(data_load_log'[i]) = RestOf(data_load_log[i])
                /\ ProgressOf(data_load_log'[i]) =
                      IF i = load_id /\ op'.ok THEN op'.given
                      ELSE ProgressOf(data_load_log[i])]_vars

\* update_progress has run on an open Load record whose counters are
\* its arguments, the second of which was left out
C22_Witness ==
    /\ op.name = "update_progress"
    /\ op.ok
    /\ op.load_id # 0
    /\ op.given = Progress(1, 0, 0, 0)
    /\ ProgressOf(data_load_log[op.load_id]) = op.given
    /\ data_load_log[op.load_id].status = "running"


(***************************************************************************)
(* Properties of the standings loader's rows.                              *)
(***************************************************************************)
\* the last pass of the standings loader's row loop has upserted its row
StandingUpserted ==
    /\ loader = "standings"
    /\ last.valid
    /\ last.counter # "failed"

\* the row holds a value in column c
Supplied(row, c) == Has(row, c) /\ NotNa(row[c])

\* the standing the table holds for the team of the last row
LastStanding ==
    LET name == PyStr(last.row[TeamColumn(<<last.row>>)])
        team_id == CHOOSE i \in 1..Len(teams) : teams[i].team_name = name
    IN league_standings[
          CHOOSE i \in 1..Len(league_standings) :
             /\ league_standings[i].team_id = team_id
             /\ league_standings[i].league_season_id = league_season_id
             /\ league_standings[i].standing_date = args.standing_date]

\* C23. Standings position: the stored position of a standings row is its
\* 0-based index + 1 when the row has no column 'Rk' or no value in it, and
\* the integer value of 'Rk' when it has one, wherever the row stands.
C23_StandingsPosition ==
    StandingUpserted =>
        LastStanding.position =
            IF Supplied(last.row, "Rk") THEN PyInt(last.row["Rk"])
            ELSE IntV(last.idx + 1)

\* the second row of a table, without a rank, stored with position 2
C23_Witness ==
    /\ StandingUpserted
    /\ last.idx = 1
    /\ ~Supplied(last.row, "Rk")
    /\ LastStanding.position = IntV(2)


\* the value the last row supplies for goal_difference: that of the first
\* of 'GD' and 'Goal Difference' with a value, Absent when neither has one
SuppliedDifference ==
    IF Supplied(last.row, "GD") THEN last.row["GD"]
    ELSE IF Supplied(last.row, "Goal Difference") THEN last.row["Goal Difference"]
    ELSE Absent

\* stored goals_for minus stored goals_against
StoredDifference == IntV(LastStanding.goals_for.n - LastStanding.goals_against.n)

\* the integer v is the number that value w is
SameNumber(v, w) == w.t \in {"int", "float"} /\ v = PyInt(w)

\* Goal differential as stated: the supplied value when there is one,
\* whatever it is, and the difference of the stored goals otherwise.
C24_GoalDifference ==
    StandingUpserted =>
        IF SuppliedDifference # Absent
        THEN SameNumber(LastStanding.goal_difference, SuppliedDifference)
        ELSE LastStanding.goal_difference = StoredDifference

\* C24. Goal differential default: the stored goal_difference of a
\* standings row is the integer value of the supplied 'GD' / 'Goal
\* Difference' value when one is supplied and converts to an integer, and
\* otherwise, none supplied or the supplied one not convertible, the stored
\* goals_for minus the stored goals_against of the same row.
C24_GoalDifferenceConvertible ==
    StandingUpserted =>
        LastStanding.goal_difference =
            IF SuppliedDifference # Absent /\ PyInt(SuppliedDifference) # Raised
            THEN PyInt(SuppliedDifference)
            ELSE StoredDifference

\* a stored standing of a row that supplies goals_for and a goal difference
\* that is no number
C24_Witness ==
    /\ StandingUpserted
    /\ Supplied(last.row, "GF")
    /\ PyInt(last.row["GF"]) = IntV(1)
    /\ SuppliedDifference = StrV(<<"x">>)
    /\ LastStanding.goal_difference = IntV(1)


(***************************************************************************)
(* Properties of the season range (specification SpecOrch).                *)
(***************************************************************************)
\* the first year of a season label
StartYear(label) == label[1]

\* C25. Season range: the seasons of load_all_historical_data are, in
\* ascending order, the labels 'Y-(Y+1)' of every year Y from the first
\* year of start_season to the first year of end_season, one each; there is
\* none when the start year is after the end year, and then no unit is
\* begun and no loader invoked.
C25_SeasonRange ==
    orch = "historical" =>
        LET first == StartYear(args.start_season)
            final == StartYear(args.end_season)
        IN /\ Len(seasons) = IF first > final THEN 0 ELSE final - first + 1
           /\ \A i \in 1..Len(seasons) : seasons[i] = <<first + i - 1, first + i>>
           /\ first > final => units = << >> /\ calls = << >>

\* a historical run over a range of two seasons has begun its second unit
C25_Witness ==
    /\ orch = "historical"
    /\ StartYear(args.end_season) = StartYear(args.start_season) + 1
    /\ Len(seasons) = 2
    /\ Len(units) = 2


(***************************************************************************)
(* Properties of get_or_create_* under concurrent callers (specification   *)
(* SpecRace).                                                              *)
(***************************************************************************)
\* the name of row i of the table get_or_create_* `of` fills
RowName(of, i) ==
    IF of = "get_or_create_team" THEN teams[i].team_name ELSE players[i].player_name

\* rows i < j of the table of `of` have the same name
Duplicates(of, i, j) ==
    /\ i < j
    /\ j <= Len(RaceTable(of))
    /\ RowName(of, i) = RowName(of, j)

\* rows i and j were inserted by two processes, and the process that
\* inserted j had looked the name up before row i was there
BothMissed(of, i, j) ==
    \E p, q \in issued :
       /\ p.of = of /\ q.of = of
       /\ p.id = i /\ q.id = j
       /\ p.caller # q.caller
       /\ q.seen < i

\* C26. Identity race: the lookup and the insert of get_or_create_team and
\* get_or_create_player are two transactions; two rows with the same name
\* come to be only when two callers both miss the name and both insert it,
\* and never with a single sequential caller.
C26_IdentityRace ==
    \A of \in {"get_or_create_team", "get_or_create_player"} :
       \A i, j \in 1..Len(RaceTable(of)) :
          Duplicates(of, i, j) =>
             /\ Cardinality(DOMAIN op) > 1
             /\ BothMissed(of, i, j)

\* two callers have both missed the team name 'A' and both inserted it: the
\* teams table has two rows 'A'
C26_Witness ==
    /\ loader = "race"
    /\ Len(teams) = 2
    /\ Duplicates("get_or_create_team", 1, 2)
    /\ BothMissed("get_or_create_team", 1, 2)
    /\ op[1].pc = "returned"
    /\ op[2].pc = "returned"
    /\ op[1].result # op[2].result

(***************************************************************************)
(* Properties of the stored matches (specification Spec).                  *)
(***************************************************************************)
\* C27. Status agrees with scores: every row of the matches table has status
\* 'completed' exactly when both its scores are non-null and 'scheduled'
\* exactly when both are null; no row has exactly one score.
C27_StatusAgreesWithScores ==
    \A i \in 1..Len(matches) :
       /\ matches[i].match_status \in {"completed", "scheduled"}
       /\ matches[i].match_status = "completed"
             <=> (matches[i].home_score # None /\ matches[i].away_score # None)
       /\ matches[i].match_status = "scheduled"
             <=> (matches[i].home_score = None /\ matches[i].away_score = None)

\* the match loader has processed a row that has a home score and no away
\* score: the match it has written is scheduled and has neither score
C27_Witness ==
    /\ loader = "matches"
    /\ last.valid
    /\ "home_score" \in DOMAIN last.row
    /\ NotNa(last.row.home_score)
    /\ IsNa(last.row.away_score)
    /\ last.counter = "inserted"
    /\ \E i \in MatchesOf(matches, last.row) :
          /\ matches[i].match_status = "scheduled"
          /\ matches[i].home_score = None
          /\ matches[i].away_score = None

(***************************************************************************)
(* Properties of an exception inside a unit (specification SpecOrch).      *)
(***************************************************************************)
\* a step of the unit's except clause: a category loader has raised and the
\* orchestrator has caught the exception
LoaderRaisedInUnit ==
    /\ loader = "orchestrator"
    /\ pc = "loop"
    /\ pc' = "loop"
    /\ calls' # << >>
    /\ calls'[Len(calls')].outcome = "raised"
    /\ <<li, sj, cat>>' # <<li, sj, cat>>

\* the unit after the unit (i, j) in the loops
UnitAfter(i, j) == IF j < Len(seasons) THEN <<i, j + 1>> ELSE <<i + 1, 1>>

\* no loader of the unit was called after the one that raised, and the
\* orchestrator stands at the first category of another unit
RaisedCallIsLast ==
    \A n \in 1..Len(calls) :
       calls[n].outcome = "raised" =>
          /\ n = Len(calls)
          /\ cat = 1
          /\ units # << >>
          /\ <<li, sj>> = UnitAfter(units[Len(units)][1], units[Len(units)][2])

\* C28. A raising category ends its unit: when a category loader raises
\* inside a unit of load_all_historical_data or run_daily_update, no later
\* category loader of that unit is called, the run-wide totals stay what the
\* earlier categories had made them, and the next step is the first category
\* of the next unit.
C28_RaisingCategoryEndsUnit ==
    /\ [](loader = "orchestrator" => RaisedCallIsLast)
    /\ [][LoaderRaisedInUnit =>
             /\ total' = total
             /\ cat' = 1
             /\ <<li', sj'>> = UnitAfter(li, sj)
             /\ \A n \in 1..(Len(calls') - 1) :
                   total'[calls'[n].category] # ZeroCounts]_vars

\* the matches loader of the first unit returned its counts, the team-stat
\* loader raised, and the orchestrator stands at the first category of the
\* second unit with the totals of matches kept
C28_Witness ==
    /\ loader = "orchestrator"
    /\ pc = "loop"
    /\ Len(units) = 1
    /\ Len(calls) = 2
    /\ calls[1].outcome = "returned"
    /\ calls[2].category = "team_stats"
    /\ calls[2].outcome = "raised"
    /\ total["matches"] = Counts(1, 0, 1)
    /\ total["team_stats"] = ZeroCounts
    /\ cat = 1
    /\ <<li, sj>> # units[1]

(***************************************************************************)
(* Properties of the stat sub-categories of the team-stat and player-stat  *)
(* loaders (specification Spec).                                           *)
(***************************************************************************)
StatLoaders == {"team_stats", "player_stats"}

\* the Load records the call under way has opened
OpenedByCall ==
    SubSeq(data_load_log, Len(before.data_load_log) + 1, Len(data_load_log))

\* a stats loader that has returned after its loop has opened one Load record
\* for every stat type, each ended, and returns its totals; an exception
\* caught for a stat type has left that stat type's record failed and has
\* not been raised
SubCategoriesIsolated ==
    /\ \A n \in 1..Len(caught) :
          /\ data_load_log[caught[n].load_id].status = "failed"
          /\ caught[n].load_id > Len(before.data_load_log)
          /\ pc # "raised"
    /\ (pc = "returned" /\ ~NotFound(league_season_id)) =>
          /\ Len(OpenedByCall) = Len(args.stat_types)
          /\ \A n \in 1..Len(OpenedByCall) :
                /\ OpenedByCall[n].load_type = LoadType(loader, args.stat_types[n])
                /\ OpenedByCall[n].status \in {"completed", "failed"}
          /\ result = Returns(total_stats)

\* a step that ends a stat type of a stats loader
StatTypeEnds ==
    /\ loader \in StatLoaders
    /\ pc \in {"stat", "rows"}
    /\ pc' \in {"stat", "returned", "raised"}
    /\ <<pc, k>>' # <<pc, k>>

\* what a step that ends a stat type adds to the totals: the counts of the
\* rows when _process_* has returned them, nothing otherwise
CountsOfStatType ==
    IF pc = "rows" THEN Counts(inserted, updated, failed) ELSE ZeroCounts

\* C29. Stat sub-category isolation: in the team-stat and player-stat
\* loaders an exception caught for one stat sub-category leaves that
\* sub-category's Load record failed and is not re-raised; the loader goes
\* on to the next sub-category, opens a Load record for every sub-category,
\* and returns totals that are the sums of the counts of the sub-categories
\* whose row processing returned.
C29_SubCategoryIsolation ==
    /\ [](loader \in StatLoaders => SubCategoriesIsolated)
    /\ [][StatTypeEnds =>
             /\ total_stats' = AddCounts(total_stats, CountsOfStatType)
             /\ IF k < Len(args.stat_types)
                THEN pc' = "stat" /\ k' = k + 1
                ELSE pc' = "returned"]_vars

\* a stats loader has returned after two stat types: the read of the first
\* raised, the rows of the second were processed and update_progress raised;
\* both Load records are failed and the totals are the counts of the second
C29_Witness ==
    /\ loader \in StatLoaders
    /\ pc = "returned"
    /\ Len(args.stat_types) = 2
    /\ Len(caught) = 2
    /\ caught[1].error = "SourceUnavailable"
    /\ caught[2].error = "DatabaseError"
    /\ Len(OpenedByCall) = 2
    /\ OpenedByCall[1].status = "failed"
    /\ OpenedByCall[2].status = "failed"
    /\ result.stats = Counts(inserted, updated, failed)
    /\ inserted + updated > 0

(***************************************************************************)
(* Properties of the rows counted as failed (specification SpecRow).       *)
(***************************************************************************)
\* a step of a row loop that counts its row as failed
RowCountedFailed ==
    /\ pc = "rows"
    /\ idx' = idx + 1
    /\ failed' = failed + 1

\* the names a row gives under the columns `cols`, as str() gives them
NamesUnder(row, cols) == {PyStr(row[c]) : c \in cols \cap DOMAIN row}

TeamNameColumns == {"home_team", "Home", "away_team", "Away", "team", "Team", "Squad"}

PlayerNameColumns == {"player", "Player"}

\* C30 as the specification states it. A failed row leaves storage
\* unchanged: a step that counts its row as failed changes no target table
\* and creates no team and no player.
C30_FailedRowNoChange ==
    [][RowCountedFailed =>
          UNCHANGED <<teams, players, matches, team_season_stats,
                      player_season_stats, league_standings>>]_vars

\* C30. A failed row leaves the target tables unchanged: a step that counts
\* its row as failed inserts and updates no row of a target table; what it
\* may leave are teams and players created for names of the row that were
\* not stored before, appended to the rows that were there.
C30_FailedRowNoTargetChange ==
    [][RowCountedFailed =>
          /\ UNCHANGED <<matches, team_season_stats, player_season_stats,
                         league_standings>>
          /\ Len(teams') >= Len(teams)
          /\ SubSeq(teams', 1, Len(teams)) = teams
          /\ \A i \in (Len(teams) + 1)..Len(teams') :
                /\ teams'[i].team_name \in NamesUnder(df[idx + 1], TeamNameColumns)
                /\ \A j \in 1..(i - 1) : teams'[j].team_name # teams'[i].team_name
          /\ Len(players') >= Len(players)
          /\ SubSeq(players', 1, Len(players)) = players
          /\ \A i \in (Len(players) + 1)..Len(players') :
                /\ players'[i].player_name
                      \in NamesUnder(df[idx + 1], PlayerNameColumns)
                /\ \A j \in 1..(i - 1) :
                      players'[j].player_name # players'[i].player_name]_vars

\* a match row that names two teams and has no date has been counted as
\* failed: no match is stored and the two teams have been created
C30_Witness ==
    /\ loader = "matches"
    /\ last.valid
    /\ last.counter = "failed"
    /\ ~last.raised
    /\ IsNa(RowGet(last.row, "date", "Date"))
    /\ matches = last.table
    /\ Len(teams) > Len(last.teams)
    /\ failed = 1

=============================================================================
